---- MODULE Spec2Model ----
(***************************************************************************)
(* A state-machine model of the cp reimplementation (yrbane/cp).  Each     *)
(* subsystem of the program has one record-valued variable; each           *)
(* subsystem has its own specification, in which the other variables stay  *)
(* at their idle value.                                                    *)
(*                                                                         *)
(*   fc  the regular-file path of the single-file driver: copy.rs          *)
(*       copy_regular_file, sparse.rs copy_sparse, engine.rs               *)
(*       copy_file_data                                                    *)
(***************************************************************************)
EXTENDS Integers, Sequences, FiniteSets, TLC

VARIABLES fc, lk, wk, cs, rn, cc, md, sg, up, bk, ds, pl, xa, dr, op, eq, mx, nk

vars == <<fc, lk, wk, cs, rn, cc, md, sg, up, bk, ds, pl, xa, dr, op, eq, mx, nk>>

Idle == [pc |-> "idle"]

Min(a, b) == IF a <= b THEN a ELSE b

Max(a, b) == IF a >= b THEN a ELSE b

(***************************************************************************)
(* Bounds of the model.                                                    *)
(***************************************************************************)
\* A file is a sequence of at most MaxCells cells of `grain` bytes each.
MaxCells == 3

\* The cell sizes the files are built from: 16 KiB cells give files around
\* the 32 KiB sparse threshold, 128 KiB cells give files around the
\* 256 KiB clone threshold and the 256 KiB buffers, and one cell of
\* 32767 bytes is the largest file below the sparse threshold.
Grains == {16 * 1024, 128 * 1024, 32 * 1024 - 1}

(***************************************************************************)
(* Program constants.                                                      *)
(***************************************************************************)
COPY_FILE_RANGE_CHUNK == 67108864

SENDFILE_CHUNK == 67108864

RW_BUF_SIZE == 262144

FICLONE_THRESHOLD == 262144

SPARSE_THRESHOLD == 32768

BUF_SIZE == 262144

(***************************************************************************)
(* Files.  A source cell is a hole (unallocated, reads as zero), allocated *)
(* zero bytes, or data; the bytes of data cell i are written i, so that a  *)
(* cell copied to the wrong place shows.  A destination cell holds -1      *)
(* while nothing was written to it (it reads as zero when it lies within   *)
(* the file's length), or the bytes written to it.                         *)
(***************************************************************************)
Kinds == {"hole", "zero", "data"}

Layouts == UNION {[1..n -> Kinds] : n \in 0..MaxCells}

SrcByte(src, i) == IF src[i] = "data" THEN i ELSE 0

Size(f) == Len(f.src) * f.grain

CellOf(f, off) == off \div f.grain + 1

ReadDst(f, i) == IF f.dst[i] = -1 THEN 0 ELSE f.dst[i]

\* The byte counts a read or an in-kernel copy call of at most `want`
\* bytes may return when `avail` bytes lie between the descriptor's offset
\* and the end of the file: any positive short count, and 0 only at the
\* end of the file.
Counts(f, want, avail) ==
    IF Min(want, avail) = 0 THEN {0}
    ELSE {k * f.grain : k \in 1..(Min(want, avail) \div f.grain)}

\* n bytes of the source at offset soff arrive in the destination at
\* offset doff; both descriptors' offsets advance by n.
Transfer(f, n) ==
    LET s0 == CellOf(f, f.soff)
        d0 == CellOf(f, f.doff)
        k  == n \div f.grain
    IN [f EXCEPT
          !.dst  = [i \in DOMAIN f.dst |->
                      IF i >= d0 /\ i < d0 + k /\ (i - d0 + s0) \in DOMAIN f.src
                      THEN SrcByte(f.src, i - d0 + s0) ELSE f.dst[i]],
          !.dcnt = [i \in DOMAIN f.dcnt |->
                      IF i >= d0 /\ i < d0 + k THEN Min(f.dcnt[i] + 1, 2)
                      ELSE f.dcnt[i]],
          !.dlen = Max(f.dlen, f.doff + n),
          !.soff = f.soff + n,
          !.doff = f.doff + n]

\* File::create: O_WRONLY|O_CREAT|O_TRUNC, a fresh descriptor at offset 0.
FileCreate(f) ==
    [f EXCEPT !.dst = [i \in DOMAIN f.dst |-> -1],
              !.dcnt = [i \in DOMAIN f.dcnt |-> 0],
              !.dlen = 0, !.doff = 0, !.dexists = TRUE]

\* open_dest_create: create, and under force remove and create once more.
\* o1, o2: whether the first and the second File::create succeed.
open_dest_create(f, o1, o2) ==
    IF o1 THEN [ok |-> TRUE, f |-> FileCreate(f)]
    ELSE IF f.force
         THEN IF o2 THEN [ok |-> TRUE, f |-> FileCreate(f)]
              ELSE [ok |-> FALSE, f |-> [f EXCEPT !.dexists = FALSE]]
         ELSE [ok |-> FALSE, f |-> f]

Fail(f, e) == [f EXCEPT !.pc = "done", !.result = "err", !.err = e]

use_sparse_above(f) == f.sparse # "Never" /\ Size(f) > SPARSE_THRESHOLD

\* copy_regular_file, lines 179-181: whether the sparse subsystem is called.
use_sparse(f) == f.sparse # "Never" /\ Size(f) >= SPARSE_THRESHOLD

\* The subsystems and the engine's steps in the order of their first
\* call: "sparse" (sparse::copy_sparse), "engine" (copy_file_data),
\* "clone", "cfr", "sf", "rw".
Tried(f, step) ==
    IF \E i \in 1..Len(f.tried) : f.tried[i] = step THEN f
    ELSE [f EXCEPT !.tried = Append(@, step)]

\* The engine's steps that have put bytes of the source in the destination,
\* in the order of their first transfer, each under the name
\* copy_file_data has for it in its tags.
Moved(f, name) ==
    IF \E i \in 1..Len(f.moved) : f.moved[i] = name THEN f
    ELSE [f EXCEPT !.moved = Append(@, name)]

\* copy_regular_file, lines 177-212: what is called once both files are
\* open.
Dispatch(f) ==
    IF Size(f) > 0
    THEN IF use_sparse(f)
         THEN Tried([f EXCEPT !.pc = IF f.sparse = "Always"
                                     THEN "z_setlen" ELSE "a_scan"], "sparse")
         ELSE Tried([f EXCEPT !.pc = "e_clone"], "engine")
    ELSE [f EXCEPT !.pc = "meta"]

FileInit ==
    /\ nk = Idle
    /\ mx = Idle
    /\ eq = Idle
    /\ op = Idle
    /\ dr = Idle
    /\ xa = Idle
    /\ pl = Idle
    /\ lk = Idle /\ wk = Idle /\ cs = Idle /\ rn = Idle
    /\ cc = Idle /\ md = Idle /\ sg = Idle
    /\ up = Idle /\ bk = Idle /\ ds = Idle
    /\ \E src \in Layouts, g \in Grains, sp \in {"Never", "Auto", "Always"},
       rl \in {"Never", "Auto", "Always"}, fo \in BOOLEAN, ex \in BOOLEAN :
         fc = [pc |-> "open", src |-> src, grain |-> g, sparse |-> sp,
             reflink |-> rl, force |-> fo, dexists |-> ex,
             dst |-> [i \in 1..MaxCells |-> IF ex THEN 9 ELSE -1],
             dcnt |-> [i \in 1..MaxCells |-> 0],
             dlen |-> IF ex THEN MaxCells * g ELSE 0,
             soff |-> 0, doff |-> 0, offset |-> 0,
             regions |-> <<>>, ridx |-> 0, rrem |-> 0,
             copied |-> 0, remaining |-> 0, sfsize |-> 0, first |-> "",
             sparseRet |-> "none", engine |-> "none", tag |-> "",
             tried |-> <<>>, cloned |-> "none", moved |-> <<>>,
             result |-> "none", err |-> ""]

\* copy_regular_file, lines 166-181: open the source, create the
\* destination, and choose the sparse subsystem, the engine, or (an empty
\* source) neither.
OpenFiles ==
    /\ fc.pc = "open"
    /\ \E so \in BOOLEAN, o1 \in BOOLEAN, o2 \in BOOLEAN :
         IF ~so THEN fc' = Fail(fc, "OpenRead")
         ELSE LET r == open_dest_create(fc, o1, o2)
              IN IF ~r.ok THEN fc' = Fail(r.f, "CreateFile")
                 ELSE fc' = Dispatch([r.f EXCEPT !.soff = 0])
    /\ UNCHANGED <<lk, wk, cs, rn, cc, md, sg, up, bk, ds, pl, xa, dr, op, eq, mx, nk>>

(***************************************************************************)
(* sparse.rs                                                               *)
(***************************************************************************)
\* lseek(fd, pos, SEEK_DATA): the first offset >= pos that lies in data,
\* -1 (ENXIO) when only a hole follows.
SeekData(f, pos) ==
    LET c == {i \in DOMAIN f.src : (i - 1) * f.grain >= pos /\ f.src[i] # "hole"}
    IN IF c = {} THEN -1
       ELSE (CHOOSE i \in c : \A j \in c : i <= j) * f.grain - f.grain

\* lseek(fd, pos, SEEK_HOLE): the first offset >= pos that lies in a hole;
\* the end of the file counts as a hole; -1 past the end.
SeekHole(f, pos) ==
    LET c == {i \in DOMAIN f.src : (i - 1) * f.grain >= pos /\ f.src[i] = "hole"}
    IN IF pos >= Size(f) THEN -1
       ELSE IF c = {} THEN Size(f)
       ELSE (CHOOSE i \in c : \A j \in c : i <= j) * f.grain - f.grain

\* scan_sparse_regions: the loop from position pos on, regions so far.
RECURSIVE ScanFrom(_, _, _)
ScanFrom(f, pos, regions) ==
    LET data_start == SeekData(f, pos)
        hole_start == SeekHole(f, data_start)
        end        == IF hole_start < 0 THEN Size(f) ELSE hole_start
        next       == IF end > data_start
                      THEN Append(regions, [offset |-> data_start,
                                            length |-> end - data_start])
                      ELSE regions
    IN IF data_start < 0 THEN regions
       ELSE IF end >= Size(f) THEN next
       ELSE ScanFrom(f, end, next)

scan_sparse_regions(f) == ScanFrom(f, 0, <<>>)

RECURSIVE SumLengths(_)
SumLengths(regions) ==
    IF regions = <<>> THEN 0
    ELSE Head(regions).length + SumLengths(Tail(regions))

\* copy_sparse, Auto, lines 38-45 and 94: whether the scan found a hole to
\* preserve.
AutoAccepts(f, regions) == regions # <<>> /\ SumLengths(regions) < Size(f)

\* IsZero looking at the first byte of the buffer only.
IsZero_first_byte(f, n) == SrcByte(f.src, CellOf(f, f.soff)) = 0

\* Whether the n source bytes at the source offset are all zero.
IsZero(f, n) ==
    \A i \in DOMAIN f.src :
        (i >= CellOf(f, f.soff) /\ i < CellOf(f, f.soff) + n \div f.grain)
            => SrcByte(f.src, i) = 0

\* copy_sparse_by_zero_detection, lines 156-162: pre-extend the destination.
ZeroSetLen ==
    /\ fc.pc = "z_setlen"
    /\ \E ok \in BOOLEAN :
         fc' = IF ok THEN [fc EXCEPT !.dlen = Size(fc), !.offset = 0,
                                     !.pc = "z_loop"]
               ELSE Fail(fc, "Write")
    /\ UNCHANGED <<lk, wk, cs, rn, cc, md, sg, up, bk, ds, pl, xa, dr, op, eq, mx, nk>>

\* copy_sparse_by_zero_detection, one turn of the loop (lines 164-189): read
\* a buffer, and write it at `offset` unless it is all zero.
ZeroStep ==
    /\ fc.pc = "z_loop"
    /\ \E rd \in BOOLEAN, wr \in BOOLEAN,
          n \in Counts(fc, BUF_SIZE, Size(fc) - fc.soff) :
         IF ~rd THEN fc' = Fail(fc, "Read")
         ELSE IF n = 0
              THEN fc' = [fc EXCEPT !.sparseRet = "true", !.pc = "meta"]
         ELSE IF IsZero(fc, n)
              THEN fc' = [fc EXCEPT !.soff = fc.soff + n,
                                    !.offset = fc.offset + n]
         ELSE IF ~wr THEN fc' = Fail([fc EXCEPT !.soff = fc.soff + n], "Write")
         ELSE fc' = [Transfer([fc EXCEPT !.doff = fc.offset], n)
                       EXCEPT !.offset = fc.offset + n]
    /\ UNCHANGED <<lk, wk, cs, rn, cc, md, sg, up, bk, ds, pl, xa, dr, op, eq, mx, nk>>

\* copy_sparse, Auto, lines 38-54: scan the source (the scan leaves its
\* offset at 0), decline when there is no hole, else pre-extend the
\* destination.
AutoScan ==
    /\ fc.pc = "a_scan"
    /\ LET regions == scan_sparse_regions(fc)
           g == [fc EXCEPT !.soff = 0, !.regions = regions]
       IN \E ok \in BOOLEAN :
            fc' = IF ~AutoAccepts(fc, regions)
                  THEN [g EXCEPT !.sparseRet = "false", !.pc = "reopen"]
                  ELSE IF ok
                  THEN [g EXCEPT !.dlen = Size(fc), !.ridx = 1,
                                 !.pc = "a_region"]
                  ELSE Fail(g, "Write")
    /\ UNCHANGED <<lk, wk, cs, rn, cc, md, sg, up, bk, ds, pl, xa, dr, op, eq, mx, nk>>

\* copy_sparse, Auto, lines 56-68 and 92: seek both descriptors to the next
\* region, or return true after the last one.
AutoRegion ==
    /\ fc.pc = "a_region"
    /\ fc' = IF fc.ridx > Len(fc.regions)
             THEN [fc EXCEPT !.sparseRet = "true", !.pc = "meta"]
             ELSE [fc EXCEPT !.soff = fc.regions[fc.ridx].offset,
                             !.doff = fc.regions[fc.ridx].offset,
                             !.rrem = fc.regions[fc.ridx].length,
                             !.pc = "a_read"]
    /\ UNCHANGED <<lk, wk, cs, rn, cc, md, sg, up, bk, ds, pl, xa, dr, op, eq, mx, nk>>

\* copy_sparse, Auto, one turn of the inner loop (lines 69-84).
AutoRead ==
    /\ fc.pc = "a_read"
    /\ \E rd \in BOOLEAN, wr \in BOOLEAN,
          n \in Counts(fc, Min(fc.rrem, BUF_SIZE), Size(fc) - fc.soff) :
         IF fc.rrem = 0
         THEN fc' = [fc EXCEPT !.ridx = fc.ridx + 1, !.pc = "a_region"]
         ELSE IF ~rd THEN fc' = Fail(fc, "Read")
         ELSE IF n = 0
              THEN fc' = [fc EXCEPT !.ridx = fc.ridx + 1, !.pc = "a_region"]
         ELSE IF ~wr THEN fc' = Fail([fc EXCEPT !.soff = fc.soff + n], "Write")
         ELSE fc' = [Transfer(fc, n) EXCEPT !.rrem = fc.rrem - n]
    /\ UNCHANGED <<lk, wk, cs, rn, cc, md, sg, up, bk, ds, pl, xa, dr, op, eq, mx, nk>>

\* copy_regular_file, lines 192-199: the sparse subsystem declined; drop
\* both descriptors and open fresh ones.
Reopen ==
    /\ fc.pc = "reopen"
    /\ \E so \in BOOLEAN, o1 \in BOOLEAN, o2 \in BOOLEAN :
         IF ~so THEN fc' = Fail(fc, "OpenRead")
         ELSE LET r == open_dest_create(fc, o1, o2)
              IN IF ~r.ok THEN fc' = Fail(r.f, "CreateFile")
                 ELSE fc' = Tried([r.f EXCEPT !.soff = 0, !.pc = "e_clone"],
                                  "engine")
    /\ UNCHANGED <<lk, wk, cs, rn, cc, md, sg, up, bk, ds, pl, xa, dr, op, eq, mx, nk>>

(***************************************************************************)
(* engine.rs                                                               *)
(***************************************************************************)
\* copy_file_data returns Ok(tag) to copy_regular_file (lines 201-212).
EngineOk(f, tag) == [f EXCEPT !.engine = "ok", !.tag = tag, !.pc = "meta"]

EngineErr(f, e) == [Fail(f, e) EXCEPT !.engine = "err"]

try_reflink_above(f) ==
    f.reflink = "Always" \/ (f.reflink = "Auto" /\ Size(f) > FICLONE_THRESHOLD)

\* copy_file_data, lines 40-44.
try_reflink(f) ==
    CASE f.reflink = "Never"  -> FALSE
      [] f.reflink = "Always" -> TRUE
      [] f.reflink = "Auto"   -> Size(f) >= FICLONE_THRESHOLD

\* The clone ioctl: the destination shares all of the source's blocks.
Cloned(f) ==
    [f EXCEPT !.dst  = [i \in DOMAIN f.dst |->
                          IF i \in DOMAIN f.src THEN SrcByte(f.src, i) ELSE -1],
              !.dcnt = [i \in DOMAIN f.dcnt |->
                          IF i \in DOMAIN f.src THEN Min(f.dcnt[i] + 1, 2)
                          ELSE f.dcnt[i]],
              !.dlen = Size(f)]

\* copy_file_data, step 1 (lines 38-60).
Ficlone ==
    /\ fc.pc = "e_clone"
    /\ \E ok \in BOOLEAN :
         fc' = IF ~try_reflink(fc) THEN [fc EXCEPT !.copied = 0, !.pc = "e_cfr"]
               ELSE LET f == [Tried(fc, "clone") EXCEPT
                                !.cloned = IF ok THEN "ok" ELSE "failed"]
                    IN IF ok THEN EngineOk(Moved(Cloned(f), "reflink (FICLONE)"),
                                           "reflink (FICLONE)")
                       ELSE IF fc.reflink = "Always" THEN EngineErr(f, "Copy")
                       ELSE [f EXCEPT !.copied = 0, !.pc = "e_cfr"]
    /\ UNCHANGED <<lk, wk, cs, rn, cc, md, sg, up, bk, ds, pl, xa, dr, op, eq, mx, nk>>

\* AfterCopyFileRange taking a partial copy for a complete one.
AfterCopyFileRange_partial_ok(f, ok, copied) ==
    IF ok /\ copied > 0 THEN EngineOk(f, "copy_file_range")
    ELSE [f EXCEPT !.first = "", !.sfsize = Size(f), !.remaining = Size(f),
                   !.pc = "e_sf"]

\* copy_file_data, lines 63-75 and 78: what follows try_copy_file_range's
\* result: Ok(copied) when ok, Err(()) otherwise.
AfterCopyFileRange(f, ok, copied) ==
    IF ok /\ copied = Size(f) THEN EngineOk(f, "copy_file_range")
    ELSE IF ok /\ copied > 0
    THEN [f EXCEPT !.first = "copy_file_range", !.sfsize = Size(f) - copied,
                   !.remaining = Size(f) - copied, !.pc = "e_sf"]
    ELSE [f EXCEPT !.first = "", !.sfsize = Size(f), !.remaining = Size(f),
                   !.pc = "e_sf"]

\* try_copy_file_range, one turn of the loop (lines 97-132).  ret < 0 is
\* any errno: with nothing copied the step fails, else the loop ends with
\* what was copied.
CopyFileRangeCall ==
    /\ fc.pc = "e_cfr"
    /\ LET chunk == Min(Size(fc) - fc.copied, COPY_FILE_RANGE_CHUNK)
       IN \E neg \in BOOLEAN, n \in Counts(fc, chunk, Size(fc) - fc.soff) :
            fc' = LET f0 == Tried(fc, "cfr") IN
                  IF ~(f0.copied < Size(f0))
                  THEN AfterCopyFileRange(f0, TRUE, f0.copied)
                  ELSE IF neg
                  THEN AfterCopyFileRange(f0, f0.copied # 0, f0.copied)
                  ELSE IF n = 0
                  THEN AfterCopyFileRange(f0, TRUE, f0.copied)
                  ELSE LET g == [Moved(Transfer(f0, n), "copy_file_range")
                                   EXCEPT !.copied = f0.copied + n]
                       IN IF g.copied < Size(f0) THEN g
                          ELSE AfterCopyFileRange(g, TRUE, g.copied)
    /\ UNCHANGED <<lk, wk, cs, rn, cc, md, sg, up, bk, ds, pl, xa, dr, op, eq, mx, nk>>

\* copy_file_data, lines 68-70 and 78-80: try_sendfile returned Ok.
SendfileTag(f) ==
    IF f.first = "" THEN "sendfile" ELSE "copy_file_range+sendfile"

\* try_sendfile, one turn of the loop (lines 139-163).
SendfileCall ==
    /\ fc.pc = "e_sf"
    /\ LET chunk == Min(fc.remaining, SENDFILE_CHUNK)
       IN \E neg \in BOOLEAN, n \in Counts(fc, chunk, Size(fc) - fc.soff) :
            fc' = LET f0 == Tried(fc, "sf") IN
                  IF ~(f0.remaining > 0) THEN EngineOk(f0, SendfileTag(f0))
                  ELSE IF neg THEN [f0 EXCEPT !.pc = "e_rw"]
                  ELSE IF n = 0 THEN EngineOk(f0, SendfileTag(f0))
                  ELSE LET g == [Moved(Transfer(f0, n), "sendfile")
                                   EXCEPT !.remaining = f0.remaining - n]
                       IN IF g.remaining > 0 THEN g
                          ELSE EngineOk(g, SendfileTag(g))
    /\ UNCHANGED <<lk, wk, cs, rn, cc, md, sg, up, bk, ds, pl, xa, dr, op, eq, mx, nk>>

\* copy_file_data, lines 71-72 and 83-84: do_read_write returned Ok.
ReadWriteTag(f) ==
    IF f.first = "" THEN "read/write" ELSE "copy_file_range+read/write"

\* do_read_write, one turn of the loop (lines 178-191).
ReadWriteStep ==
    /\ fc.pc = "e_rw"
    /\ \E rd \in BOOLEAN, wr \in BOOLEAN,
          n \in Counts(fc, RW_BUF_SIZE, Size(fc) - fc.soff) :
         fc' = LET f0 == Tried(fc, "rw") IN
                  IF ~rd THEN EngineErr(f0, "Read")
               ELSE IF n = 0 THEN EngineOk(f0, ReadWriteTag(f0))
               ELSE IF ~wr
               THEN EngineErr([f0 EXCEPT !.soff = f0.soff + n], "Write")
               ELSE Moved(Transfer(f0, n), "read/write")
    /\ UNCHANGED <<lk, wk, cs, rn, cc, md, sg, up, bk, ds, pl, xa, dr, op, eq, mx, nk>>

\* copy_regular_file, lines 188 and 215-216: preserve_metadata, whose
\* error is returned.
FileMetadata ==
    /\ fc.pc = "meta"
    /\ \E ok \in BOOLEAN :
         fc' = IF ok THEN [fc EXCEPT !.pc = "done", !.result = "ok"]
               ELSE Fail(fc, "Metadata")
    /\ UNCHANGED <<lk, wk, cs, rn, cc, md, sg, up, bk, ds, pl, xa, dr, op, eq, mx, nk>>

FileNext ==
    \/ OpenFiles
    \/ ZeroSetLen
    \/ ZeroStep
    \/ AutoScan
    \/ AutoRegion
    \/ AutoRead
    \/ Reopen
    \/ Ficlone
    \/ CopyFileRangeCall
    \/ SendfileCall
    \/ ReadWriteStep
    \/ FileMetadata

\* The regular-file path of the single-file driver.
SpecFile == FileInit /\ [][FileNext]_vars

\* What a reader of the destination sees against the source: the same
\* length and the same bytes, holes reading as zero.
DstEqualsSrc(f) ==
    /\ f.dlen = Size(f)
    /\ \A i \in DOMAIN f.src : ReadDst(f, i) = SrcByte(f.src, i)
    /\ \A i \in DOMAIN f.dst : i \notin DOMAIN f.src => f.dst[i] = -1

\* C2: copy_file_data returns Ok only when the destination holds exactly
\* the source's bytes, each written once and in order; and while the
\* in-kernel copy, sendfile and read/write steps run, the destination's
\* offset equals the source's, the bytes below it are the source's, written
\* once, and nothing lies beyond it: a later step resumes where the earlier
\* one stopped, whatever short counts and failures came before.
C2_EngineExactCopy ==
    /\ fc.pc \in {"e_cfr", "e_sf", "e_rw"} =>
         /\ fc.soff = fc.doff
         /\ \A i \in DOMAIN fc.dst :
              IF i < CellOf(fc, fc.doff)
              THEN fc.dst[i] = SrcByte(fc.src, i) /\ fc.dcnt[i] = 1
              ELSE fc.dst[i] = -1 /\ fc.dcnt[i] = 0
    /\ fc.pc # "idle" /\ fc.engine = "ok" =>
         /\ DstEqualsSrc(fc)
         /\ \A i \in DOMAIN fc.src : fc.dcnt[i] = 1

\* C2's case: a three-cell source whose copy the in-kernel copy began and
\* the read/write loop completed.
C2_Witness ==
    /\ fc.pc # "idle" /\ fc.engine = "ok"
    /\ fc.tag = "copy_file_range+read/write"
    /\ Len(fc.src) = MaxCells

\* C3: for every sparse mode and layout of a source of at least 32 KiB,
\* once the data phase of the regular-file path has succeeded the
\* destination has the source's length and reads back the source's bytes.
C3_SparseEquivalence ==
    (fc.pc = "meta" \/ (fc.pc = "done" /\ fc.result = "ok"))
        /\ Size(fc) >= SPARSE_THRESHOLD
    => DstEqualsSrc(fc)

\* C3's case: Auto mode, a source of data and allocated zeros over an
\* existing destination; the sparse path declined and the engine copied
\* through the re-opened descriptors.
C3_Witness ==
    /\ fc.pc = "done" /\ fc.result = "ok"
    /\ fc.sparse = "Auto" /\ fc.sparseRet = "false" /\ fc.engine = "ok"
    /\ Len(fc.src) = MaxCells /\ fc.src[1] = "data" /\ fc.src[2] = "zero"

(***************************************************************************)
(* dir.rs, the fast walker's regular-file phase and its hard-link ledger:  *)
(* copy_file_openat (sequential), copy_files_parallel and                  *)
(* copy_file_openat_mt (the worker pool and the deferred-link pass).       *)
(*                                                                         *)
(* The walk meets the tracked files 1..n, in directory 1 and then in its   *)
(* subdirectory 2.  A directory also holds `fillers` more regular files of *)
(* link count 1, which only count towards the pool's threshold.  The       *)
(* destination inode of a name is -1 (no such name), 0 (an old inode that  *)
(* all old names share), f (the inode created for file f) or MaxFiles + f  *)
(* (file f's own old inode).                                               *)
(***************************************************************************)
MaxFiles == 3

\* Enough source inodes for single names and for groups of names.
MaxInodes == (MaxFiles + 1) \div 2

MaxWorkers == 2

PARALLEL_THRESHOLD == 64

Dirs == {1, 2}

\* 62 other files: a directory with two of the files above reaches the
\* threshold, a directory with one of them stays below it.
FillerCounts == {0, PARALLEL_THRESHOLD - 2}

Monotone(fn) == \A i \in DOMAIN fn, j \in DOMAIN fn : i <= j => fn[i] <= fn[j]

FilesOf(c, d) == {f \in DOMAIN c.dirOf : c.dirOf[f] = d}

\* copy_dir_recurse, line 278: reg_files.len() >= PARALLEL_THRESHOLD.
UsesPool(c, d) == Cardinality(FilesOf(c, d)) + c.fillers[d] >= PARALLEL_THRESHOLD

\* files.chunks(chunk_size): the tracked files of directory d that worker
\* w's chunk holds, in enumeration order.
RECURSIVE Ascending(_)
Ascending(S) ==
    IF S = {} THEN <<>>
    ELSE LET m == CHOOSE x \in S : \A y \in S : x <= y
         IN <<m>> \o Ascending(S \ {m})

ChunkOf(c, d, w) == Ascending({f \in FilesOf(c, d) : c.wOf[f] = w})

\* s.st_nlink > 1 under a ledger: the file goes through the ledger.
Tracked(c, f) == c.preserve_links /\ c.nlink[c.ino[f]] > 1

\* Inode numbers are labels: the first file has inode 1, and a file has an
\* inode met before it or the next unused one.
InodeMaps ==
    {m \in [1..MaxFiles -> 1..MaxInodes] :
       \A f \in 1..MaxFiles : \A i \in 1..(m[f] - 1) : \E g \in 1..(f - 1) : m[g] = i}

LinkConfigs ==
    {c \in [ino : InodeMaps,
            extra : {0, 1},
            fillers : [Dirs -> FillerCounts],
            pre : {"fresh", "separate"},
            force : BOOLEAN, preserve_links : BOOLEAN] :
       \* without a ledger the link counts are never read
       ~c.preserve_links => c.extra = 0}

\* The rest of a configuration: the directory and the chunk of each file
\* (both follow the enumeration order), and each source inode's link
\* count: its names in the tree plus `extra` names outside it.
LinkLayouts(c0) ==
    {c \in [ino : {c0.ino}, extra : {c0.extra}, fillers : {c0.fillers},
            pre : {c0.pre}, force : {c0.force},
            preserve_links : {c0.preserve_links},
            dirOf : [DOMAIN c0.ino -> Dirs],
            wOf : [DOMAIN c0.ino -> 1..MaxWorkers],
            nlink : {[i \in 1..MaxInodes |->
                        Max(1, Cardinality({f \in DOMAIN c0.ino : c0.ino[f] = i})
                               + c0.extra)]}] :
        /\ Monotone(c.dirOf)
        /\ \A f \in DOMAIN c.ino, g \in DOMAIN c.ino :
             (f <= g /\ c.dirOf[f] = c.dirOf[g]) => c.wOf[f] <= c.wOf[g]
        /\ \A f \in DOMAIN c.ino : ~UsesPool(c, c.dirOf[f]) => c.wOf[f] = 1
        \* other files that do not reach the threshold change nothing
        /\ \A d \in Dirs : c.fillers[d] # 0 => UsesPool(c, d)}

IdleWorker == [pc |-> "off", chunk |-> <<>>, first |-> 0]
DoneWorker == [pc |-> "done", chunk |-> <<>>, first |-> 0]

LinkInit ==
    /\ nk = Idle
    /\ mx = Idle
    /\ eq = Idle
    /\ op = Idle
    /\ dr = Idle
    /\ xa = Idle
    /\ pl = Idle
    /\ fc = Idle /\ wk = Idle /\ cs = Idle /\ rn = Idle
    /\ cc = Idle /\ md = Idle /\ sg = Idle
    /\ up = Idle /\ bk = Idle /\ ds = Idle
    /\ \E c0 \in LinkConfigs : \E c \in LinkLayouts(c0) :
         lk = [pc |-> "dir", cfg |-> c, d |-> 1, files |-> <<>>,
               hard_link_map |-> [i \in 1..MaxInodes |-> 0],
               deferred_links |-> <<>>, first_err |-> "",
               w |-> [x \in 1..MaxWorkers |-> IdleWorker],
               dname |-> [f \in 1..MaxFiles |->
                            IF c.pre = "fresh" THEN -1
                            ELSE MaxFiles + f],
               copies |-> [f \in 1..MaxFiles |-> 0],
               into |-> [f \in 1..MaxFiles |-> -1],
               linked |-> [f \in 1..MaxFiles |-> FALSE],
               created |-> {},
               err_writes |-> 0, first_rec |-> "",
               begun |-> {}, ended |-> {}, begun_at_err |-> {},
               registered |-> {},
               first_reg |-> [i \in 1..MaxInodes |-> 0],
               handed |-> [i \in 1..MaxInodes |-> 0],
               result |-> "none", err |-> ""]

\* The walk returns the error: its ledger, pool and deferred list are
\* dropped with it.
LinkFail(s, e) ==
    [s EXCEPT !.pc = "done", !.result = "err", !.err = e, !.files = <<>>,
              !.hard_link_map = [i \in 1..MaxInodes |-> 0],
              !.deferred_links = <<>>, !.first_err = "",
              !.w = [x \in 1..MaxWorkers |-> IdleWorker]]

\* A ledger whose lookups never hit.
LedgerGet_always_miss(s, key) == 0

\* The ledger's get: the first destination registered for the key, 0 on a
\* miss.
LedgerGet(s, key) == s.hard_link_map[key]

\* HashMap::insert(key, dst_file) on the ledger (dir.rs lines 450, 641).
\* `first_reg` keeps the first value ever inserted for the key.
LedgerInsert(s, key, f) ==
    [s EXCEPT !.hard_link_map[key] = f,
              !.first_reg[key] = IF @ = 0 THEN f ELSE @]

\* openat(dst_dir_fd, name, O_WRONLY|O_CREAT|O_TRUNC), and under force
\* unlinkat and a second openat (copy_file_openat lines 454-496,
\* copy_file_openat_mt lines 645-682).  out: "ok"; "retry" (the first open
\* fails, the one after the unlink succeeds); "fail" (every open fails and
\* the name stays); "gone" (every open fails, the unlink succeeded).
OpenDst(s, f, out) ==
    LET creates == [s EXCEPT !.dname[f] = f]
    IN CASE out = "ok" /\ s.dname[f] = -1 -> [ok |-> TRUE, fd |-> f, s |-> creates]
         [] out = "ok" /\ s.dname[f] # -1 ->
              [ok |-> TRUE, fd |-> s.dname[f], s |-> s]
         [] out = "retry" /\ s.cfg.force -> [ok |-> TRUE, fd |-> f, s |-> creates]
         [] out = "gone" /\ s.cfg.force ->
              [ok |-> FALSE, fd |-> -1, s |-> [s EXCEPT !.dname[f] = -1]]
         [] OTHER -> [ok |-> FALSE, fd |-> -1, s |-> s]

OpenOutcomes == {"ok", "retry", "fail", "gone"}

\* copy_and_close on the open descriptors: the data goes to the inode the
\* destination descriptor was opened on.
CopyData(s, f, fd) ==
    [s EXCEPT !.copies[f] = Min(s.copies[f] + 1, 2), !.into[f] = fd]

\* Remove the destination name, errors ignored (unl: the removal works),
\* then link(orig, dst): it needs orig to exist and dst not to (lnk: the
\* syscall does not fail otherwise).
HardLink(s, orig, dst, unl, lnk) ==
    LET t == IF unl THEN [s EXCEPT !.dname[dst] = -1] ELSE s
    IN IF lnk /\ t.dname[orig] # -1 /\ t.dname[dst] = -1
       THEN [ok |-> TRUE,
             s |-> [t EXCEPT !.dname[dst] = t.dname[orig], !.linked[dst] = TRUE]]
       ELSE [ok |-> FALSE, s |-> t]

\* copy_dir_recurse, lines 277-285: the pool, or the sequential loop.
\* `registered` are the keys the pool's workers inserted and `handed` is
\* the ledger put back into the walker's state at line 561; `err_writes`
\* counts the writes of the first-error cell and `first_rec` is the first
\* error a worker had to record; `begun` and `ended` are the files for
\* which copy_file_openat_mt was called and has returned, and
\* `begun_at_err` is `begun` as the first error was recorded.
EnterDir ==
    /\ lk.pc = "dir"
    /\ lk' = IF UsesPool(lk.cfg, lk.d)
             THEN [lk EXCEPT !.pc = "pool", !.first_err = "",
                             !.deferred_links = <<>>,
                             !.err_writes = 0, !.first_rec = "",
                             !.begun = {}, !.ended = {},
                             !.begun_at_err = {},
                             !.registered = {},
                             !.handed = [i \in 1..MaxInodes |-> 0],
                             !.w = [x \in 1..MaxWorkers |->
                                      [IdleWorker EXCEPT
                                         !.pc = "top",
                                         !.chunk = ChunkOf(lk.cfg, lk.d, x)]]]
             ELSE [lk EXCEPT !.pc = "seq",
                             !.files = Ascending(FilesOf(lk.cfg, lk.d))]
    /\ UNCHANGED <<fc, wk, cs, rn, cc, md, sg, up, bk, ds, pl, xa, dr, op, eq, mx, nk>>

\* copy_file_openat (lines 389-499) for the next file of the sequential
\* loop.
SeqCopyFile ==
    /\ lk.pc = "seq"
    /\ lk.files # <<>>
    /\ LET f == Head(lk.files)
           key == lk.cfg.ino[f]
           next == [lk EXCEPT !.files = Tail(lk.files)]
       IN \E so \in {"ok", "OpenRead"}, unl \in BOOLEAN, lnk \in BOOLEAN,
             out \in OpenOutcomes :
            IF so # "ok" THEN lk' = LinkFail(lk, so)
            ELSE IF Tracked(lk.cfg, f) /\ LedgerGet(lk, key) # 0
            THEN LET r == HardLink(next, LedgerGet(lk, key), f, unl, lnk)
                 IN lk' = IF r.ok THEN r.s ELSE LinkFail(r.s, "HardLink")
            ELSE LET reg == IF Tracked(lk.cfg, f)
                            THEN LedgerInsert(next, key, f)
                            ELSE next
                     r == OpenDst(reg, f, out)
                 IN lk' = IF r.ok THEN CopyData(r.s, f, r.fd)
                          ELSE LinkFail(r.s, "CreateFile")
    /\ UNCHANGED <<fc, wk, cs, rn, cc, md, sg, up, bk, ds, pl, xa, dr, op, eq, mx, nk>>

\* The file worker x is at.
FileAt(s, x) == Head(s.w[x].chunk)

\* copy_file_openat_mt is called for the file worker x is at.
Begin(s, x) == [s EXCEPT !.begun = @ \cup {FileAt(s, x)}]

\* copy_file_openat_mt has returned.
End(s, x) == [s EXCEPT !.ended = @ \cup {FileAt(s, x)}]

\* The call of worker x has returned the error e.
Erred(s, x, e) ==
    LET t == End(Begin(s, x), x)
    IN [t EXCEPT !.first_rec = IF @ = "" THEN e ELSE @,
                 !.begun_at_err = IF s.first_rec = "" THEN t.begun ELSE @,
                 !.w[x] = DoneWorker]

\* A cell that keeps the last error written.
StoreErr_last_wins(s, x, e) ==
    [Erred(s, x, e) EXCEPT !.first_err = e,
                           !.err_writes = Min(s.err_writes + 1, 2)]

\* copy_files_parallel, lines 547-553: the worker's closure records the
\* error if the cell is still empty, and returns.
StoreErr(s, x, e) ==
    [Erred(s, x, e)
       EXCEPT !.first_err = IF s.first_err = "" THEN e ELSE s.first_err,
              !.err_writes = IF s.first_err = "" THEN s.err_writes + 1
                             ELSE s.err_writes]

\* A ledger whose insert is not under the lookup's lock: every worker
\* that meets the key registers its own destination and copies.
LedgerLookup_last_wins(s, x, f) ==
    [LedgerInsert(s, s.cfg.ino[f], f)
       EXCEPT !.registered = s.registered \cup {s.cfg.ino[f]},
              !.w[x].pc = "copy"]

\* copy_file_openat_mt, lines 624-643: under the ledger's mutex, look the
\* key up; on a hit take the first destination, on a miss register.
LedgerLookup(s, x, f) ==
    LET key == s.cfg.ino[f]
    IN IF LedgerGet(s, key) # 0
       THEN [s EXCEPT !.w[x].pc = "defer", !.w[x].first = LedgerGet(s, key)]
       ELSE [LedgerInsert(s, key, f)
               EXCEPT !.registered = s.registered \cup {key},
                      !.w[x].pc = "copy"]

\* copy_files_parallel, lines 534-537, and copy_file_openat_mt, lines
\* 595-643: the top of a worker's loop.  The worker returns at the end of
\* its chunk or when the first-error cell is set; else it opens and stats
\* the source and, for a file with several links, goes through the ledger.
\* Opening the source touches nothing shared and the ledger step commutes
\* with the other workers' writes of the error cell, so the three are one
\* step.
WorkerTop(x) ==
    /\ lk.pc = "pool" /\ lk.w[x].pc = "top"
    /\ \E so \in {"ok", "OpenRead"} :
         lk' = IF lk.w[x].chunk = <<>> \/ lk.first_err # ""
               THEN [lk EXCEPT !.w[x] = DoneWorker]
               ELSE IF so # "ok"
               THEN StoreErr(lk, x, so)
               ELSE IF Tracked(lk.cfg, FileAt(lk, x))
               THEN LedgerLookup(Begin(lk, x), x, FileAt(lk, x))
               ELSE [Begin(lk, x) EXCEPT !.w[x].pc = "copy"]
    /\ UNCHANGED <<fc, wk, cs, rn, cc, md, sg, up, bk, ds, pl, xa, dr, op, eq, mx, nk>>

\* A worker that makes the link itself on a ledger hit, as the
\* sequential copy_file_openat does.
WorkerDefer_links_now(x) ==
    /\ lk.pc = "pool" /\ lk.w[x].pc = "defer"
    /\ LET r == HardLink(lk, lk.w[x].first, FileAt(lk, x), TRUE, TRUE)
       IN lk' = IF r.ok
                THEN [End(r.s, x) EXCEPT !.w[x].pc = "top",
                                         !.w[x].chunk = Tail(lk.w[x].chunk),
                                         !.w[x].first = 0]
                ELSE StoreErr(r.s, x, "HardLink")
    /\ UNCHANGED <<fc, wk, cs, rn, cc, md, sg, up, bk, ds, pl, xa, dr, op, eq, mx, nk>>

\* A worker that, on a ledger hit, links when the first destination is
\* already there and copies its own file when it is not.
WorkerDefer_copies_if_absent(x) ==
    /\ lk.pc = "pool" /\ lk.w[x].pc = "defer"
    /\ LET f == FileAt(lk, x)
           r == HardLink(lk, lk.w[x].first, f, TRUE, TRUE)
           t == IF r.ok THEN r.s ELSE CopyData(OpenDst(lk, f, "ok").s, f, f)
       IN lk' = [End(t, x) EXCEPT !.w[x].pc = "top",
                                  !.w[x].chunk = Tail(lk.w[x].chunk),
                                  !.w[x].first = 0]
    /\ UNCHANGED <<fc, wk, cs, rn, cc, md, sg, up, bk, ds, pl, xa, dr, op, eq, mx, nk>>

\* copy_file_openat_mt, lines 636-638: push the pair and return Ok.
WorkerDefer(x) ==
    /\ lk.pc = "pool" /\ lk.w[x].pc = "defer"
    /\ lk' = [End(lk, x)
                EXCEPT !.deferred_links =
                           Append(lk.deferred_links,
                                  <<lk.w[x].first, FileAt(lk, x)>>),
                        !.w[x].pc = "top",
                        !.w[x].chunk = Tail(lk.w[x].chunk),
                        !.w[x].first = 0]
    /\ UNCHANGED <<fc, wk, cs, rn, cc, md, sg, up, bk, ds, pl, xa, dr, op, eq, mx, nk>>

\* copy_file_openat_mt, lines 645-684: open the destination, then
\* copy_and_close, then the next file of the chunk.
WorkerCopy(x) ==
    /\ lk.pc = "pool" /\ lk.w[x].pc = "copy"
    /\ \E out \in OpenOutcomes :
         LET r == OpenDst(lk, FileAt(lk, x), out)
         IN lk' = IF r.ok
                  THEN [End(CopyData(r.s, FileAt(lk, x), r.fd), x)
                          EXCEPT !.w[x].pc = "top",
                                 !.w[x].chunk = Tail(lk.w[x].chunk)]
                  ELSE StoreErr(r.s, x, "CreateFile")
    /\ UNCHANGED <<fc, wk, cs, rn, cc, md, sg, up, bk, ds, pl, xa, dr, op, eq, mx, nk>>

\* copy_files_parallel, lines 558-565: every worker has returned; the
\* ledger goes back into the walker's state and the first error, if any,
\* is returned.
Join ==
    /\ lk.pc = "pool"
    /\ \A x \in 1..MaxWorkers : lk.w[x].pc = "done"
    /\ lk' = LET back == [lk EXCEPT !.handed = lk.hard_link_map]
             IN IF lk.first_err # "" THEN LinkFail(back, lk.first_err)
                ELSE [back EXCEPT !.pc = "links",
                                  !.w = [x \in 1..MaxWorkers |-> IdleWorker]]
    /\ UNCHANGED <<fc, wk, cs, rn, cc, md, sg, up, bk, ds, pl, xa, dr, op, eq, mx, nk>>

\* copy_files_parallel, lines 568-576: the next deferred hard link.
DeferredLink ==
    /\ lk.pc = "links"
    /\ lk.deferred_links # <<>>
    /\ \E unl \in BOOLEAN, lnk \in BOOLEAN :
         LET p == Head(lk.deferred_links)
             r == HardLink([lk EXCEPT !.deferred_links = Tail(lk.deferred_links)],
                           p[1], p[2], unl, lnk)
         IN lk' = IF r.ok THEN r.s ELSE LinkFail(r.s, "HardLink")
    /\ UNCHANGED <<fc, wk, cs, rn, cc, md, sg, up, bk, ds, pl, xa, dr, op, eq, mx, nk>>

\* A walker that goes on once the workers have returned, with deferred
\* links still to make.
FilesPhaseOver_before_links(s) ==
    \/ s.pc = "seq" /\ s.files = <<>>
    \/ s.pc = "links"

\* copy_dir_recurse, lines 277-285: the sequential loop has ended, or
\* copy_files_parallel has returned Ok.
FilesPhaseOver(s) ==
    \/ s.pc = "seq" /\ s.files = <<>>
    \/ s.pc = "links" /\ s.deferred_links = <<>>

\* copy_dir_recurse, lines 297-357: the loop over the special files.  A
\* failing fstatat skips the file and EPERM from mknodat is tolerated;
\* another mknodat or mkfifoat error is returned.  `created` holds the
\* kinds of entries made in the directory after its regular files.
SpecialFiles ==
    /\ FilesPhaseOver(lk)
    /\ \E out \in {"ok", "skip", "MkNod"} :
         lk' = CASE out = "MkNod" -> LinkFail(lk, "MkNod")
                 [] out = "skip" -> [lk EXCEPT !.pc = "symlinks"]
                 [] OTHER -> [lk EXCEPT !.pc = "symlinks",
                                        !.created = lk.created \cup {"spec"}]
    /\ UNCHANGED <<fc, wk, cs, rn, cc, md, sg, up, bk, ds, pl, xa, dr, op, eq, mx, nk>>

\* copy_dir_recurse, lines 360-371: the loop over the symbolic links.
Symlinks ==
    /\ lk.pc = "symlinks"
    /\ \E out \in {"ok", "Symlink"} :
         lk' = IF out = "ok"
               THEN [lk EXCEPT !.pc = "recurse",
                               !.created = lk.created \cup {"lnk"}]
               ELSE LinkFail(lk, out)
    /\ UNCHANGED <<fc, wk, cs, rn, cc, md, sg, up, bk, ds, pl, xa, dr, op, eq, mx, nk>>

\* copy_dir_recurse, lines 374-384: the walk recurses into the
\* subdirectory, or ends.
LeaveDir ==
    /\ lk.pc = "recurse"
    /\ lk' = IF lk.d = 1
             THEN [lk EXCEPT !.pc = "dir", !.d = 2, !.created = {}]
             ELSE [lk EXCEPT !.pc = "done", !.result = "ok", !.created = {}]
    /\ UNCHANGED <<fc, wk, cs, rn, cc, md, sg, up, bk, ds, pl, xa, dr, op, eq, mx, nk>>

LinkNext ==
    \/ EnterDir
    \/ SeqCopyFile
    \/ \E x \in 1..MaxWorkers : WorkerTop(x)
    \/ \E x \in 1..MaxWorkers : WorkerDefer(x)
    \/ \E x \in 1..MaxWorkers : WorkerCopy(x)
    \/ Join
    \/ DeferredLink
    \/ SpecialFiles
    \/ Symlinks
    \/ LeaveDir

\* The regular-file phases of a fast-path walk over two directories.
SpecLinks == LinkInit /\ [][LinkNext]_vars

\* The names of source inode i in the tree.
NamesOf(s, i) == {f \in 1..MaxFiles : s.cfg.ino[f] = i}

\* C1: with preserve_links set, when the walk succeeds, every source inode
\* with more than one link that the walk met under two or more names has
\* exactly one destination that received a data copy, and every other
\* destination of the group received none and is a hard link to that one,
\* whatever the directories and workers of the names.
C1_HardLinkDedup ==
    lk.pc = "done" /\ lk.result = "ok" /\ lk.cfg.preserve_links =>
      \A i \in 1..MaxInodes :
        Cardinality(NamesOf(lk, i)) >= 2 =>
          \E f \in NamesOf(lk, i) :
            /\ lk.copies[f] = 1 /\ ~lk.linked[f]
            /\ lk.dname[f] # -1 /\ lk.dname[f] = lk.into[f]
            /\ \A g \in NamesOf(lk, i) \ {f} :
                 lk.copies[g] = 0 /\ lk.linked[g] /\ lk.dname[g] = lk.dname[f]

\* A successful walk where two names of one inode sat in different chunks of
\* the pool, the later chunk's worker won the ledger, and a third name in
\* the next directory was linked to its copy.
C1_Witness ==
    /\ lk.pc = "done" /\ lk.result = "ok" /\ lk.cfg.preserve_links
    /\ \E g \in 1..MaxFiles, h \in 1..MaxFiles, f \in 1..MaxFiles :
         /\ g < h /\ h < f
         /\ lk.cfg.ino[g] = lk.cfg.ino[h] /\ lk.cfg.ino[h] = lk.cfg.ino[f]
         /\ lk.cfg.dirOf[g] = 1 /\ lk.cfg.dirOf[h] = 1 /\ lk.cfg.dirOf[f] = 2
         /\ lk.cfg.wOf[g] # lk.cfg.wOf[h]
         /\ lk.copies[h] = 1 /\ lk.linked[g] /\ lk.linked[f]

\* ---------------------------------------------------------------------
\* The directory walkers (dir.rs): copy_directory_raw with
\* copy_dir_recurse, and copy_directory_walkdir.
\* ---------------------------------------------------------------------

MaxDirs == 3

\* The entries of a tree that may fail without ending the walk.
MaxFailed == 1

\* The kinds of entries besides subdirectories a directory may hold.
EntryKinds == {"reg", "lnk", "spec"}

\* Source trees: directory 1 is the root, the parent of a directory has a
\* smaller number; every directory holds one entry of each kind of `kinds`.
Trees ==
    UNION {[n : {n}, parent : {p \in [2..n -> 1..n] : \A d \in 2..n : p[d] < d},
            kinds : SUBSET EntryKinds] : n \in 1..MaxDirs}

ChildrenOf(t, d) == {e \in 2..t.n : t.parent[e] = d}

RECURSIVE IsUnder(_, _, _)
\* e is d or a descendant of d.
IsUnder(t, e, d) ==
    IF e = d THEN TRUE
    ELSE IF e <= 1 THEN FALSE
    ELSE IsUnder(t, t.parent[e], d)

Subtree(t, d) == {e \in 1..t.n : IsUnder(t, e, d)}

\* Entries are pairs <<directory, kind>>; the entry of a subdirectory d in
\* its parent is <<d, "dir">>.
EntriesIn(t, d) ==
    {<<c, "dir">> : c \in ChildrenOf(t, d)} \cup {<<d, k>> : k \in t.kinds}

EntriesUnder(t, d) == UNION {EntriesIn(t, e) : e \in Subtree(t, d)}

RECURSIVE SeqOf(_)
SeqOf(S) ==
    IF S = {} THEN <<>>
    ELSE LET m == CHOOSE x \in S : \A y \in S : x <= y IN <<m>> \o SeqOf(S \ {m})

\* The order of the slow walker: a directory, then its entries; the
\* subdirectories are walked depth first, before or after the other
\* entries of their parent.
RECURSIVE PreOrder(_, _, _)
PreOrder(t, d, dirs_first) ==
    LET RECURSIVE Subs(_)
        Subs(ch) == IF ch = <<>> THEN <<>>
                    ELSE PreOrder(t, Head(ch), dirs_first) \o Subs(Tail(ch))
        own == SeqOf({k \in {1, 2, 3} : <<"reg", "lnk", "spec">>[k] \in t.kinds})
        files == [i \in 1..Len(own) |-> <<d, <<"reg", "lnk", "spec">>[own[i]]>>]
        subs == Subs(SeqOf(ChildrenOf(t, d)))
    IN <<<<d, "dir">>>> \o (IF dirs_first THEN subs \o files ELSE files \o subs)

WalkConfigs ==
    [tree : Trees, walker : {"fast", "slow"}, need_dir_meta : BOOLEAN,
     one_file_system : BOOLEAN, dirs_first : BOOLEAN]

WalkInit ==
    /\ nk = Idle
    /\ mx = Idle
    /\ eq = Idle
    /\ op = Idle
    /\ dr = Idle
    /\ xa = Idle
    /\ pl = Idle
    /\ fc = Idle /\ lk = Idle /\ cs = Idle /\ rn = Idle
    /\ cc = Idle /\ md = Idle /\ sg = Idle
    /\ up = Idle /\ bk = Idle /\ ds = Idle
    /\ \E c \in WalkConfigs :
         /\ c.walker = "fast" => ~c.dirs_first
         /\ wk = [pc |-> "start", cfg |-> c, stack |-> <<>>, queue |-> <<>>,
                  dir_meta |-> <<>>, applied |-> <<>>,
                  made |-> {}, copied |-> {}, failed |-> {}, excluded |-> {},
                  late |-> FALSE, result |-> "none", err |-> ""]

WalkFail(s, e) ==
    [s EXCEPT !.pc = "done", !.result = "err", !.err = e,
              !.stack = <<>>, !.queue = <<>>]

\* A write into destination directory d.  `late` records a write beneath
\* a directory whose metadata has already been applied.
WriteIn(s, d) ==
    [s EXCEPT !.late = s.late \/ \E i \in DOMAIN s.applied :
                                    IsUnder(s.cfg.tree, d, s.applied[i])]

\* One more entry may fail.
MayFail(s) == Cardinality(s.failed) < MaxFailed

Frame(t, d) ==
    [d |-> d, phase |-> "enum", todo |-> SeqOf(ChildrenOf(t, d)),
     subdirs |-> <<>>, seen |-> t.kinds]

Top(s) == s.stack[Len(s.stack)]

SetTop(s, f) == [s EXCEPT !.stack[Len(s.stack)] = f]

\* copy_directory, lines 38-44, then copy_directory_raw, lines 62-111
\* (create and open the root, save its metadata), or the head of
\* copy_directory_walkdir, lines 902-926.
CopyDirectoryStart ==
    /\ wk.pc = "start"
    /\ \E out \in {"ok", "err"}, st \in BOOLEAN :
         wk' = IF wk.cfg.walker = "slow"
               THEN [wk EXCEPT !.pc = "walk",
                               !.queue = PreOrder(wk.cfg.tree, 1, wk.cfg.dirs_first)]
               ELSE IF out = "err" THEN WalkFail(wk, "CreateDir")
               ELSE [wk EXCEPT !.pc = "fast", !.made = {1},
                               !.dir_meta = IF wk.cfg.need_dir_meta /\ st
                                            THEN <<1>> ELSE <<>>,
                               !.stack = <<Frame(wk.cfg.tree, 1)>>]
    /\ UNCHANGED <<fc, lk, cs, rn, cc, md, sg, up, bk, ds, pl, xa, dr, op, eq, mx, nk>>

\* copy_dir_recurse, lines 168-272: readdir yields the next subdirectory,
\* or fails.  A failing readdir ends the loop like the end of the
\* directory does (lines 174-176).
FastReaddir ==
    /\ wk.pc = "fast" /\ Top(wk).phase = "enum" /\ Top(wk).todo # <<>>
    /\ LET f == Top(wk)
           c == Head(f.todo)
           rest == [f EXCEPT !.todo = Tail(f.todo)]
       IN \E out \in {"ok", "xdev", "mkdir_err", "open_err", "readdir_err"},
             st \in BOOLEAN :
            wk' = CASE out = "readdir_err" /\ MayFail(wk) ->
                         [SetTop(wk, [f EXCEPT !.todo = <<>>, !.seen = {}])
                            EXCEPT !.failed = wk.failed \cup
                                     {<<f.todo[i], "dir">> : i \in DOMAIN f.todo}
                                     \cup {<<f.d, k>> : k \in f.seen}]
                    [] out = "xdev" /\ wk.cfg.one_file_system ->
                         [SetTop(wk, rest)
                            EXCEPT !.excluded = wk.excluded \cup
                                                EntriesUnder(wk.cfg.tree, c)
                                                \cup {<<c, "dir">>}]
                    [] out = "mkdir_err" -> WalkFail(wk, "CreateDir")
                    [] out = "open_err" /\ MayFail(wk) ->
                         [WriteIn(SetTop(wk, rest), f.d)
                            EXCEPT !.made = wk.made \cup {c},
                                   !.failed = wk.failed \cup {<<c, "dir">>}]
                    [] OTHER ->
                         [WriteIn(SetTop(wk, [rest EXCEPT
                                                !.subdirs = Append(f.subdirs, c)]),
                                  f.d)
                            EXCEPT !.made = wk.made \cup {c},
                                   !.dir_meta = IF wk.cfg.need_dir_meta /\ st
                                                THEN Append(wk.dir_meta, c)
                                                ELSE wk.dir_meta]
    /\ UNCHANGED <<fc, lk, cs, rn, cc, md, sg, up, bk, ds, pl, xa, dr, op, eq, mx, nk>>

\* copy_dir_recurse, lines 174-176 and 275: readdir returns NULL; the
\* entries other than subdirectories are in their lists.
FastEnumEnd ==
    /\ wk.pc = "fast" /\ Top(wk).phase = "enum" /\ Top(wk).todo = <<>>
    /\ \E out \in {"end", "readdir_err"} :
         wk' = IF out = "readdir_err" /\ Top(wk).seen # {} /\ MayFail(wk)
               THEN [SetTop(wk, [Top(wk) EXCEPT !.phase = "files", !.seen = {}])
                       EXCEPT !.failed = wk.failed \cup
                                {<<Top(wk).d, k>> : k \in Top(wk).seen}]
               ELSE SetTop(wk, [Top(wk) EXCEPT !.phase = "files"])
    /\ UNCHANGED <<fc, lk, cs, rn, cc, md, sg, up, bk, ds, pl, xa, dr, op, eq, mx, nk>>

\* copy_dir_recurse, lines 277-285: the regular files of the directory.
FastFiles ==
    /\ wk.pc = "fast" /\ Top(wk).phase = "files"
    /\ LET f == Top(wk)
           next == SetTop(wk, [f EXCEPT !.phase = "special"])
       IN \E out \in {"ok", "err"} :
            wk' = IF "reg" \notin f.seen THEN next
                  ELSE IF out = "err" THEN WalkFail(wk, "OpenRead")
                  ELSE [WriteIn(next, f.d)
                          EXCEPT !.copied = wk.copied \cup {<<f.d, "reg">>}]
    /\ UNCHANGED <<fc, lk, cs, rn, cc, md, sg, up, bk, ds, pl, xa, dr, op, eq, mx, nk>>

\* copy_dir_recurse, lines 297-357: the special files.  A failing fstatat
\* skips the file (lines 305-320); EPERM from mknodat is tolerated (lines
\* 344-351).
FastSpecial ==
    /\ wk.pc = "fast" /\ Top(wk).phase = "special"
    /\ LET f == Top(wk)
           next == SetTop(wk, [f EXCEPT !.phase = "symlinks"])
       IN \E out \in {"ok", "stat_err", "eperm", "mknod_err"} :
            wk' = IF "spec" \notin f.seen THEN next
                  ELSE CASE out = "stat_err" /\ MayFail(wk) ->
                              [next EXCEPT !.failed = wk.failed \cup {<<f.d, "spec">>}]
                         [] out = "eperm" /\ MayFail(wk) ->
                              [WriteIn(next, f.d)
                                 EXCEPT !.failed = wk.failed \cup {<<f.d, "spec">>}]
                         [] out = "mknod_err" -> WalkFail(WriteIn(wk, f.d), "MkNod")
                         [] OTHER ->
                              [WriteIn(next, f.d)
                                 EXCEPT !.copied = wk.copied \cup {<<f.d, "spec">>}]
    /\ UNCHANGED <<fc, lk, cs, rn, cc, md, sg, up, bk, ds, pl, xa, dr, op, eq, mx, nk>>

\* copy_dir_recurse, lines 360-371: the symbolic links.
FastSymlinks ==
    /\ wk.pc = "fast" /\ Top(wk).phase = "symlinks"
    /\ LET f == Top(wk)
           next == SetTop(wk, [f EXCEPT !.phase = "recurse"])
       IN \E out \in {"ok", "err"} :
            wk' = IF "lnk" \notin f.seen THEN next
                  ELSE IF out = "err" THEN WalkFail(wk, "Symlink")
                  ELSE [WriteIn(next, f.d)
                          EXCEPT !.copied = wk.copied \cup {<<f.d, "lnk">>}]
    /\ UNCHANGED <<fc, lk, cs, rn, cc, md, sg, up, bk, ds, pl, xa, dr, op, eq, mx, nk>>

\* copy_dir_recurse, lines 374-384 and 147-162: the next subdirectory is
\* entered, or the directory is done; after the root, lines 113-116.
FastRecurse ==
    /\ wk.pc = "fast" /\ Top(wk).phase = "recurse"
    /\ LET f == Top(wk)
           popped == [wk EXCEPT !.stack = SubSeq(wk.stack, 1, Len(wk.stack) - 1)]
       IN \E out \in {"ok", "err"} :
            wk' = IF f.subdirs # <<>>
                  THEN IF out = "err" THEN WalkFail(wk, "OpenRead")
                       ELSE [wk EXCEPT
                               !.stack = Append(
                                  SubSeq(wk.stack, 1, Len(wk.stack) - 1)
                                    \o <<[f EXCEPT !.subdirs = Tail(f.subdirs)]>>,
                                  Frame(wk.cfg.tree, Head(f.subdirs)))]
                  ELSE IF Len(wk.stack) > 1 THEN popped
                  ELSE [popped EXCEPT !.pc = "apply"]
    /\ UNCHANGED <<fc, lk, cs, rn, cc, md, sg, up, bk, ds, pl, xa, dr, op, eq, mx, nk>>

RECURSIVE DropUnder(_, _, _)
\* The queue without the entries beneath directory d.
DropUnder(t, q, d) ==
    IF q = <<>> THEN <<>>
    ELSE IF Head(q) \in EntriesUnder(t, d) THEN DropUnder(t, Tail(q), d)
    ELSE <<Head(q)>> \o DropUnder(t, Tail(q), d)

\* copy_directory_walkdir, lines 929-1032: one turn of the loop over the
\* walker.  An error item is printed and skipped (lines 930-936), and the
\* walker does not yield what lies beneath it; a directory on another
\* device is skipped and so is everything beneath it (lines 951-956 and
\* 977-988).
SlowEntry ==
    /\ wk.pc = "walk" /\ wk.queue # <<>>
    /\ LET e == Head(wk.queue)
           d == e[1]
           t == wk.cfg.tree
           next == [wk EXCEPT !.queue = Tail(wk.queue)]
           pruned == [wk EXCEPT !.queue = IF e[2] = "dir"
                                          THEN DropUnder(t, Tail(wk.queue), d)
                                          ELSE Tail(wk.queue)]
       IN \E out \in {"ok", "walk_err", "xdev", "err"}, st \in BOOLEAN :
            wk' = CASE out = "walk_err" /\ MayFail(wk) ->
                         [pruned EXCEPT !.failed = wk.failed \cup {e}]
                    [] out = "xdev" /\ wk.cfg.one_file_system /\ e[2] = "dir" ->
                         [pruned EXCEPT !.excluded =
                                          wk.excluded \cup {e} \cup EntriesUnder(t, d)]
                    [] out = "err" ->
                         WalkFail(wk, IF e[2] = "dir" THEN "CreateDir" ELSE "OpenRead")
                    [] OTHER ->
                         IF e[2] = "dir"
                         THEN [WriteIn(next, IF d = 1 THEN 1 ELSE t.parent[d])
                                 EXCEPT !.made = wk.made \cup {d},
                                        !.dir_meta = IF wk.cfg.need_dir_meta /\ st
                                                     THEN Append(wk.dir_meta, d)
                                                     ELSE wk.dir_meta]
                         ELSE [WriteIn(next, d)
                                 EXCEPT !.copied = wk.copied \cup {e}]
    /\ UNCHANGED <<fc, lk, cs, rn, cc, md, sg, up, bk, ds, pl, xa, dr, op, eq, mx, nk>>

\* copy_directory_walkdir, lines 1033-1035: the walker is exhausted.
SlowWalkEnd ==
    /\ wk.pc = "walk" /\ wk.queue = <<>>
    /\ wk' = [wk EXCEPT !.pc = "apply"]
    /\ UNCHANGED <<fc, lk, cs, rn, cc, md, sg, up, bk, ds, pl, xa, dr, op, eq, mx, nk>>

\* A deferred list read from its head.
NextMeta_forward(s) == s.dir_meta[Len(s.applied) + 1]

\* dir_meta.iter().rev(): the next directory of the deferred pass.
NextMeta(s) == s.dir_meta[Len(s.dir_meta) - Len(s.applied)]

\* copy_directory_raw, lines 118-131, and copy_directory_walkdir, lines
\* 1037-1041: one turn of the deferred pass, or its end.  Only the slow
\* walker's preserve_metadata can fail.
ApplyDirMeta ==
    /\ wk.pc = "apply"
    /\ \E out \in {"ok", "err"} :
         wk' = IF Len(wk.applied) = Len(wk.dir_meta)
               THEN [wk EXCEPT !.pc = "done", !.result = "ok"]
               ELSE IF out = "err" /\ wk.cfg.walker = "slow"
               THEN WalkFail(wk, "Metadata")
               ELSE [wk EXCEPT !.applied = Append(wk.applied, NextMeta(wk))]
    /\ UNCHANGED <<fc, lk, cs, rn, cc, md, sg, up, bk, ds, pl, xa, dr, op, eq, mx, nk>>

WalkNext ==
    \/ CopyDirectoryStart
    \/ FastReaddir
    \/ FastEnumEnd
    \/ FastFiles
    \/ FastSpecial
    \/ FastSymlinks
    \/ FastRecurse
    \/ SlowEntry
    \/ SlowWalkEnd
    \/ ApplyDirMeta

\* One recursive copy of a source tree, by either walker.
SpecWalk == WalkInit /\ [][WalkNext]_vars

\* The directories whose metadata was saved for the deferred pass.
Deferred(s) == {s.dir_meta[i] : i \in DOMAIN s.dir_meta}

\* C4: in both walkers no write happens beneath a destination directory
\* once its metadata has been applied (the walk has finished all of them:
\* files, links, special files, subdirectories), and a directory's metadata
\* is applied only after that of every descendant directory in the
\* deferred list.
C4_DirMetadataBottomUp ==
    wk.pc # "idle" =>
      /\ ~wk.late
      /\ wk.applied # <<>> => wk.stack = <<>> /\ wk.queue = <<>>
      /\ \A i \in DOMAIN wk.applied :
           \A e \in Deferred(wk) :
             (e # wk.applied[i] /\ IsUnder(wk.cfg.tree, e, wk.applied[i])) =>
               \E j \in 1..(i - 1) : wk.applied[j] = e

\* A fast walk of a chain of three directories holding files, ended with
\* the three directories' metadata applied deepest first.
C4_Witness ==
    /\ wk.pc = "done" /\ wk.result = "ok" /\ wk.cfg.walker = "fast"
    /\ wk.cfg.tree.n = MaxDirs
    /\ \A d \in 2..wk.cfg.tree.n : wk.cfg.tree.parent[d] = d - 1
    /\ Len(wk.applied) = MaxDirs /\ wk.applied[MaxDirs] = 1
    /\ <<MaxDirs, "reg">> \in wk.copied

\* The entries a finished walk has copied: files, links, special files,
\* and the subdirectories it created.
CopiedEntries(s) == s.copied \cup {<<d, "dir">> : d \in s.made}

\* C7: in either walker a failure on any entry of the source tree makes
\* the recursive copy return an error, so a walk that returns Ok has
\* copied every entry that the one_file_system rule does not exclude.
C7_EntryFailureIsError ==
    wk.pc = "done" /\ wk.result = "ok" =>
      /\ wk.failed = {}
      /\ (EntriesUnder(wk.cfg.tree, 1) \cup {<<1, "dir">>}) \ wk.excluded
           \subseteq CopiedEntries(wk)

\* ---------------------------------------------------------------------
\* The copy-into-itself checks (main.rs copy_source, dir.rs
\* copy_directory).
\* ---------------------------------------------------------------------

\* The longest destination operand, in components.
MaxDepth == 3

\* The working directory holds the directory a and the symbolic link l to
\* it; a holds the subdirectories named in `sub`; nothing is named x.
\* Paths are sequences of components, relative to the working directory;
\* canonical paths are sequences of directory names from it.
PathNames == {".", "a", "l", "s", "x"}

NoPath == <<"!">>

\* The directory a name leads to from a canonical directory.
Lookup(sub, dir, name) ==
    CASE dir = NoPath -> NoPath
      [] name = "." -> dir
      [] dir = <<>> /\ name \in {"a", "l"} -> <<"a">>
      [] dir = <<"a">> /\ name \in sub -> <<"a", name>>
      [] OTHER -> NoPath

RECURSIVE ResolveFrom(_, _, _)
ResolveFrom(sub, dir, path) ==
    IF path = <<>> THEN dir
    ELSE ResolveFrom(sub, Lookup(sub, dir, Head(path)), Tail(path))

\* std::fs::canonicalize: NoPath when a component does not exist.
canonicalize(sub, path) == ResolveFrom(sub, <<>>, path)

RECURSIVE LandsFrom(_, _, _)
\* Where a path lands once its missing components are created.
LandsFrom(sub, dir, path) ==
    IF path = <<>> THEN dir
    ELSE IF Head(path) = "." THEN LandsFrom(sub, dir, Tail(path))
    ELSE IF Lookup(sub, dir, Head(path)) # NoPath
    THEN LandsFrom(sub, Lookup(sub, dir, Head(path)), Tail(path))
    ELSE LandsFrom({}, Append(dir, Head(path)), Tail(path))

\* Path::components: a "." is kept only in front.
DropCurDir(path) == SelectSeq(path, LAMBDA n : n # ".")

components(path) ==
    IF path # <<>> /\ Head(path) = "." THEN <<".">> \o DropCurDir(Tail(path))
    ELSE DropCurDir(path)

IsPrefix(p, q) == Len(p) <= Len(q) /\ SubSeq(q, 1, Len(p)) = p

\* Path::starts_with: component by component.
starts_with(path, base) == IsPrefix(components(base), components(path))

\* Path::file_name of a source operand.
file_name(path) == path[Len(path)]

\* util::build_dest_path without --parents.
build_dest_path(source, dest, dest_is_dir) ==
    IF dest_is_dir THEN dest \o <<file_name(source)>> ELSE dest

SourceSpellings == {<<"a">>, <<".", "a">>, <<"l">>}

DestSpellings == UNION {[1..n -> PathNames] : n \in 1..MaxDepth}

SelfInit ==
    /\ nk = Idle
    /\ mx = Idle
    /\ eq = Idle
    /\ op = Idle
    /\ dr = Idle
    /\ xa = Idle
    /\ pl = Idle
    /\ fc = Idle /\ lk = Idle /\ wk = Idle /\ rn = Idle
    /\ cc = Idle /\ md = Idle /\ sg = Idle
    /\ up = Idle /\ bk = Idle /\ ds = Idle
    /\ \E src \in SourceSpellings, dst \in DestSpellings,
          sb \in SUBSET {"a", "l", "s"}, fl \in BOOLEAN :
         cs = [pc |-> "copy_source", source |-> src, dest |-> dst, sub |-> sb,
               follow |-> fl, target |-> <<>>, created |-> {},
               wrote |-> FALSE, result |-> "none"]

\* main.rs, lines 50 and 77-92: the source's metadata, and the target.
\* Every existing name of the tree is a directory or leads to one; the
\* link l is a directory when it is followed.
CopySourceHead ==
    /\ cs.pc = "copy_source"
    /\ LET is_dir == cs.source # <<"l">> \/ cs.follow
           dest_is_dir == canonicalize(cs.sub, cs.dest) # NoPath
       IN cs' = IF ~is_dir
                THEN [cs EXCEPT !.pc = "done", !.result = "copy_single"]
                ELSE [cs EXCEPT !.pc = "canonical",
                                !.target = build_dest_path(cs.source, cs.dest,
                                                           dest_is_dir)]
    /\ UNCHANGED <<fc, lk, wk, rn, cc, md, sg, up, bk, ds, pl, xa, dr, op, eq, mx, nk>>

\* main.rs, lines 94-104: the check on canonical paths, made only when
\* both canonicalize calls succeed.
CanonicalCheck ==
    /\ cs.pc = "canonical"
    /\ LET canon_src == canonicalize(cs.sub, cs.source)
           canon_dst == canonicalize(cs.sub, cs.target)
       IN cs' = IF canon_src # NoPath /\ canon_dst # NoPath
                   /\ IsPrefix(canon_src, canon_dst)
                THEN [cs EXCEPT !.pc = "done", !.result = "CopyIntoSelf"]
                ELSE [cs EXCEPT !.pc = "copy_directory"]
    /\ UNCHANGED <<fc, lk, wk, rn, cc, md, sg, up, bk, ds, pl, xa, dr, op, eq, mx, nk>>

\* dir.rs, lines 29-36: the check on the paths as spelled.
TextualCheck ==
    /\ cs.pc = "copy_directory"
    /\ cs' = IF starts_with(cs.target, cs.source)
                /\ components(cs.target) # components(cs.source)
             THEN [cs EXCEPT !.pc = "done", !.result = "CopyIntoSelf"]
             ELSE [cs EXCEPT !.pc = "walk"]
    /\ UNCHANGED <<fc, lk, wk, rn, cc, md, sg, up, bk, ds, pl, xa, dr, op, eq, mx, nk>>

\* dir.rs, lines 63-69 and 111: the walker creates the missing
\* destination root and copies the tree into it.
CreateRoot ==
    /\ cs.pc = "walk"
    /\ cs' = [cs EXCEPT !.pc = "done", !.result = "copied", !.wrote = TRUE,
                        !.created = IF canonicalize(cs.sub, cs.target) = NoPath
                                    THEN {LandsFrom(cs.sub, <<>>, cs.target)}
                                    ELSE {}]
    /\ UNCHANGED <<fc, lk, wk, rn, cc, md, sg, up, bk, ds, pl, xa, dr, op, eq, mx, nk>>

SelfNext ==
    \/ CopySourceHead
    \/ CanonicalCheck
    \/ TextualCheck
    \/ CreateRoot

\* One directory operand of a recursive copy, up to the creation of its
\* destination.
SpecSelf == SelfInit /\ [][SelfNext]_vars

\* C5: a recursive copy whose destination is, canonically, the source or
\* beneath it ends with the copy-into-itself error and has created and
\* written nothing, whether the destination exists or not and however the
\* two are spelled.
C5_CopyIntoSelfRejected ==
    (/\ cs.pc = "done" /\ cs.result # "copy_single"
     /\ IsPrefix(canonicalize(cs.sub, cs.source),
                 LandsFrom(cs.sub, <<>>, cs.target))) =>
      cs.result = "CopyIntoSelf" /\ cs.created = {} /\ ~cs.wrote

\* ---------------------------------------------------------------------
\* run (main.rs) and util::resolve_target.
\* ---------------------------------------------------------------------

\* The most path operands on a command line.
MaxPaths == 4

RunInit ==
    /\ nk = Idle
    /\ mx = Idle
    /\ eq = Idle
    /\ op = Idle
    /\ dr = Idle
    /\ xa = Idle
    /\ pl = Idle
    /\ fc = Idle /\ lk = Idle /\ wk = Idle /\ cs = Idle
    /\ cc = Idle /\ md = Idle /\ sg = Idle
    /\ up = Idle /\ bk = Idle /\ ds = Idle
    /\ \E n \in 0..MaxPaths, td \in BOOLEAN, ntd \in BOOLEAN :
         rn = [pc |-> "resolve", npaths |-> n, target_directory |-> td,
               no_target_directory |-> ntd, sources |-> 0, i |-> 1,
               attempted |-> <<>>, failed |-> {}, exit_code |-> 0,
               dest_is_dir |-> "unasked",
               target_err |-> "", returned |-> -1]

RunReturns(s, code) == [s EXCEPT !.pc = "done", !.returned = code]

\* util::resolve_target, lines 27-56, and its caller, main.rs lines 41-48.
\* is_dir is what the file system answers for the directory operand.
resolve_target ==
    /\ rn.pc = "resolve"
    /\ \E is_dir \in BOOLEAN :
         rn' = IF rn.target_directory
               THEN IF ~is_dir
                    THEN RunReturns([rn EXCEPT !.target_err = "NotADirectory"], 1)
                    ELSE [rn EXCEPT !.pc = "check", !.sources = rn.npaths]
               ELSE CASE rn.npaths = 0 ->
                           RunReturns([rn EXCEPT !.target_err = "MissingOperand"], 1)
                      [] rn.npaths = 1 ->
                           RunReturns([rn EXCEPT !.target_err = "MissingDestination"], 1)
                      [] OTHER ->
                           IF rn.npaths - 1 > 1 /\ ~is_dir /\ ~rn.no_target_directory
                           THEN RunReturns([rn EXCEPT !.target_err = "NotADirectory"], 1)
                           ELSE [rn EXCEPT !.pc = "check",
                                           !.sources = rn.npaths - 1]
    /\ UNCHANGED <<fc, lk, wk, cs, cc, md, sg, up, bk, ds, pl, xa, dr, op, eq, mx, nk>>

\* main.rs, lines 50-59: several sources need a directory.  The answer
\* of dest.is_dir() is kept for the copies.
MultiSourceCheck ==
    /\ rn.pc = "check"
    /\ \E dest_is_dir \in BOOLEAN :
         LET s == [rn EXCEPT !.dest_is_dir = IF dest_is_dir THEN "yes" ELSE "no"]
         IN rn' = IF rn.sources > 1 /\ ~dest_is_dir /\ ~rn.no_target_directory
                  THEN RunReturns([s EXCEPT !.target_err = "NotADirectory"], 1)
                  ELSE [s EXCEPT !.pc = "loop", !.i = 1, !.exit_code = 0]
    /\ UNCHANGED <<fc, lk, wk, cs, cc, md, sg, up, bk, ds, pl, xa, dr, op, eq, mx, nk>>

\* A loop that stops at the first failing operand.
CopyOperand_stops ==
    /\ rn.pc = "loop" /\ rn.i <= rn.sources
    /\ \E out \in {"ok", "err"} :
         rn' = IF out = "err"
               THEN RunReturns([rn EXCEPT !.attempted = Append(rn.attempted, rn.i),
                                          !.failed = rn.failed \cup {rn.i}], 1)
               ELSE [rn EXCEPT !.attempted = Append(rn.attempted, rn.i),
                               !.i = rn.i + 1]
    /\ UNCHANGED <<fc, lk, wk, cs, cc, md, sg, up, bk, ds, pl, xa, dr, op, eq, mx, nk>>

\* main.rs, lines 61-66: one turn of the loop over the sources.
CopyOperand ==
    /\ rn.pc = "loop" /\ rn.i <= rn.sources
    /\ \E out \in {"ok", "err"} :
         rn' = [rn EXCEPT !.attempted = Append(rn.attempted, rn.i),
                          !.failed = IF out = "err" THEN rn.failed \cup {rn.i}
                                     ELSE rn.failed,
                          !.exit_code = IF out = "err" THEN 1 ELSE rn.exit_code,
                          !.i = rn.i + 1]
    /\ UNCHANGED <<fc, lk, wk, cs, cc, md, sg, up, bk, ds, pl, xa, dr, op, eq, mx, nk>>

\* main.rs, line 68: the loop is over.
RunEnd ==
    /\ rn.pc = "loop" /\ rn.i > rn.sources
    /\ rn' = RunReturns(rn, rn.exit_code)
    /\ UNCHANGED <<fc, lk, wk, cs, cc, md, sg, up, bk, ds, pl, xa, dr, op, eq, mx, nk>>

RunNext ==
    \/ resolve_target
    \/ MultiSourceCheck
    \/ CopyOperand
    \/ RunEnd

\* One invocation of run.
SpecRun == RunInit /\ [][RunNext]_vars

\* C6: when run returns, it has either failed to resolve the target and
\* returns 1, or it has attempted every source operand in command-line
\* order, whatever failed before, and returns 1 exactly when an operand's
\* copy reported an error, 0 otherwise.
C6_RunExitCode ==
    rn.pc = "done" =>
      /\ rn.returned \in {0, 1}
      /\ rn.returned = 1 <=> (rn.target_err # "" \/ rn.failed # {})
      /\ rn.target_err = "" =>
           rn.attempted = [k \in 1..rn.sources |-> k]

\* A run of three sources whose first operand failed and whose last one
\* was still copied.
C6_Witness ==
    /\ rn.pc = "done" /\ rn.target_err = "" /\ rn.sources >= 3
    /\ rn.failed = {1} /\ Len(rn.attempted) = rn.sources /\ rn.returned = 1

\* ---------------------------------------------------------------------
\* copy_and_close (dir.rs): the fast path's per-file copy.
\* ---------------------------------------------------------------------

\* The largest source file, in units the kernel may transfer at once.
MaxUnits == 4

\* errno of a failing copy_file_range.
CopyErrnos == {"EXDEV", "ENOSPC", "EIO", "EINVAL"}

CloseInit ==
    /\ nk = Idle
    /\ mx = Idle
    /\ eq = Idle
    /\ op = Idle
    /\ dr = Idle
    /\ xa = Idle
    /\ pl = Idle
    /\ fc = Idle /\ lk = Idle /\ wk = Idle /\ cs = Idle
    /\ rn = Idle /\ md = Idle /\ sg = Idle
    /\ up = Idle /\ bk = Idle /\ ds = Idle
    /\ \E n \in 0..MaxUnits, m \in BOOLEAN :
         cc = [pc |-> "loop", size |-> n, need_file_meta |-> m, copied |-> 0,
               errno |-> "", meta |-> FALSE, closed |-> FALSE,
               result |-> "none"]

\* dir.rs, lines 698-711: one copy_file_range call at the descriptors'
\* offsets.  The kernel transfers some of the remaining bytes, returns 0 at
\* end of file, or returns -1; the loop goes on only after a positive
\* return.
CopyFileRangeLoop ==
    /\ cc.pc = "loop"
    /\ \E ret \in -1..(cc.size - cc.copied), e \in CopyErrnos :
         /\ ret = 0 => cc.copied = cc.size
         /\ cc' = IF ret <= 0
                  THEN [cc EXCEPT !.pc = "meta",
                                  !.errno = IF ret < 0 THEN e ELSE ""]
                  ELSE [cc EXCEPT !.copied = cc.copied + ret]
    /\ UNCHANGED <<fc, lk, wk, cs, rn, md, sg, up, bk, ds, pl, xa, dr, op, eq, mx, nk>>

\* dir.rs, lines 713-746: the metadata of the file, on the descriptors.
CopyAndCloseMeta ==
    /\ cc.pc = "meta"
    /\ cc' = [cc EXCEPT !.pc = "close", !.meta = cc.need_file_meta]
    /\ UNCHANGED <<fc, lk, wk, cs, rn, md, sg, up, bk, ds, pl, xa, dr, op, eq, mx, nk>>

\* dir.rs, lines 748-753: close both descriptors and return Ok(()).
CloseAndReturn ==
    /\ cc.pc = "close"
    /\ cc' = [cc EXCEPT !.pc = "done", !.closed = TRUE, !.result = "ok"]
    /\ UNCHANGED <<fc, lk, wk, cs, rn, md, sg, up, bk, ds, pl, xa, dr, op, eq, mx, nk>>

CloseNext ==
    \/ CopyFileRangeLoop
    \/ CopyAndCloseMeta
    \/ CloseAndReturn

\* One call of copy_and_close.
SpecClose == CloseInit /\ [][CloseNext]_vars

\* C8: copy_and_close returns Ok only when its loop ended at end of file
\* with every source byte transferred; a negative return of the copy call
\* is an error for the file and never a success with a short destination.
C8_OkOnlyAtEof ==
    cc.pc = "done" /\ cc.result = "ok" =>
      cc.copied = cc.size /\ cc.errno = ""

\* ---------------------------------------------------------------------
\* The order of the attribute writes (metadata.rs preserve_metadata,
\* dir.rs copy_and_close and the deferred directory pass).
\* ---------------------------------------------------------------------

Attributes == {"xattr", "ownership", "mode", "timestamps", "acl"}

\* metadata.rs, lines 38-73.
PreserveMetadataOrder == <<"xattr", "ownership", "mode", "timestamps", "acl">>

\* dir.rs, lines 716-745.
CopyAndCloseOrder == <<"xattr", "ownership", "mode", "timestamps", "acl">>

\* dir.rs, line 120 (apply_dir_metadata, lines 833-864), then lines
\* 122-127.
DeferredDirOrder == <<"ownership", "mode", "timestamps", "xattr", "acl">>

MetaInit ==
    /\ nk = Idle
    /\ mx = Idle
    /\ eq = Idle
    /\ op = Idle
    /\ dr = Idle
    /\ xa = Idle
    /\ pl = Idle
    /\ fc = Idle /\ lk = Idle /\ wk = Idle /\ cs = Idle
    /\ rn = Idle /\ cc = Idle /\ sg = Idle
    /\ up = Idle /\ bk = Idle /\ ds = Idle
    /\ \E p \in {"preserve_metadata", "copy_and_close", "deferred_dir"},
          fl \in SUBSET Attributes, sl \in BOOLEAN, rt \in BOOLEAN :
         \* copy_and_close and the deferred pass never handle a symbolic link
         /\ p # "preserve_metadata" => ~sl
         \* need_dir_meta (dir.rs, line 96): the deferred list is empty
         \* without one of these
         /\ p = "deferred_dir" => fl \cap {"ownership", "mode", "timestamps"} # {}
         /\ md = [pc |-> p, proc |-> p, preserve |-> fl, is_symlink |-> sl,
                  is_root |-> rt, step |-> 1, log |-> <<>>,
                  bits |-> "created", before_acl |-> "none",
                  failed |-> {}, result |-> "none"]

\* The destination's permission bits after the write of a: "created" are
\* the bits it was made with, "source" the source's.  chmod writes the
\* source's mode; an access ACL carries the owner, group and other
\* entries, so writing the source's ACL writes the source's bits too, and
\* `before_acl` keeps the bits it replaced; "saved_mode" is the chmod back
\* to them (metadata.rs, lines 62-73).
WriteBits(s, a) ==
    CASE a = "mode" -> [s EXCEPT !.bits = "source"]
      [] a = "acl" -> [s EXCEPT !.before_acl = s.bits, !.bits = "source"]
      [] a = "saved_mode" -> [s EXCEPT !.bits = s.before_acl]
      [] OTHER -> s

\* What a call that writes an attribute returns: success, or an errno
\* that stands for its class ("EPERM" for EPERM and EACCES, which
\* std::io::ErrorKind::PermissionDenied does not tell apart; "EIO" for
\* every other one).
WriteOutcomes == {"ok", "ENOTSUP", "EPERM", "EIO"}

\* Whether preserve_metadata returns the failure e of the write of a:
\* preserve_xattr passes over ENOTSUP and PermissionDenied (metadata.rs,
\* lines 94-128), preserve_ownership over EPERM (lines 153-160),
\* preserve_acl over "not supported" (lines 202-226); preserve_mode and
\* preserve_timestamps return every failure (lines 166-194).
Surfaces(a, e) ==
    CASE a = "xattr" -> e = "EIO"
      [] a = "ownership" -> e # "EPERM"
      [] a = "acl" -> e # "ENOTSUP"
      [] OTHER -> TRUE

\* The record after the step for attribute a: its write when the step
\* applies, with outcome e; the error return when the write fails and the
\* procedure looks at it (`surfaced`); the Ok return after the last step.
\* `failed` keeps the writes that failed.
MetaStep(s, a, applies, e, surfaced) ==
    LET bad == applies /\ e # "ok"
        f == [s EXCEPT !.failed = IF bad THEN @ \cup {<<a, e>>} ELSE @]
        w == IF applies /\ ~bad THEN WriteBits(f, a) ELSE f
        t == [w EXCEPT !.log = IF applies THEN Append(s.log, a) ELSE s.log,
                       !.step = s.step + 1]
    IN IF bad /\ surfaced THEN [f EXCEPT !.pc = "done", !.result = "err"]
       ELSE IF t.step > 5 THEN [t EXCEPT !.pc = "done", !.result = "ok"]
       ELSE t

\* metadata.rs, lines 31-77: the next of the five steps of
\* preserve_metadata.  Ownership is for root only, the mode is not for
\* symbolic links; each helper's error is returned.  Without preserve_mode
\* the ACL step puts the destination's own mode back afterwards.
PreserveMetadataStep ==
    /\ md.pc = "preserve_metadata"
    /\ LET a == PreserveMetadataOrder[md.step]
           applies == /\ a \in md.preserve
                      /\ a = "ownership" => md.is_root
                      /\ a = "mode" => ~md.is_symlink
           restores == a = "acl" /\ "mode" \notin md.preserve /\ ~md.is_symlink
       IN \E e \in WriteOutcomes :
            md' = IF applies /\ e = "ok" /\ restores
                  THEN MetaStep([WriteBits(md, a)
                                   EXCEPT !.log = Append(md.log, a)],
                                "saved_mode", TRUE, "ok", FALSE)
                  ELSE MetaStep(md, a, applies, e, Surfaces(a, e))
    /\ UNCHANGED <<fc, lk, wk, cs, rn, cc, sg, up, bk, ds, pl, xa, dr, op, eq, mx, nk>>

\* dir.rs, lines 713-746: the next of the five steps of copy_and_close;
\* the results of the calls are not looked at.
CopyAndCloseMetaStep ==
    /\ md.pc = "copy_and_close"
    /\ LET a == CopyAndCloseOrder[md.step]
       IN \E e \in WriteOutcomes :
            md' = MetaStep(md, a, a \in md.preserve, e, FALSE)
    /\ UNCHANGED <<fc, lk, wk, cs, rn, cc, sg, up, bk, ds, pl, xa, dr, op, eq, mx, nk>>

\* dir.rs, lines 119-128, with apply_dir_metadata, lines 832-866: the next
\* step of the deferred pass for one directory; no result is looked at.
DeferredDirStep ==
    /\ md.pc = "deferred_dir"
    /\ LET a == DeferredDirOrder[md.step]
       IN \E e \in WriteOutcomes :
            md' = MetaStep(md, a, a \in md.preserve, e, FALSE)
    /\ UNCHANGED <<fc, lk, wk, cs, rn, cc, sg, up, bk, ds, pl, xa, dr, op, eq, mx, nk>>

MetaNext ==
    \/ PreserveMetadataStep
    \/ CopyAndCloseMetaStep
    \/ DeferredDirStep

\* The attribute writes on one object, by one of the three procedures.
SpecMeta == MetaInit /\ [][MetaNext]_vars

\* The place of an attribute in the pipeline.
Rank(a) ==
    CASE a = "xattr" -> 1 [] a = "ownership" -> 2 [] a = "mode" -> 3
      [] a = "timestamps" -> 4 [] a = "acl" -> 5 [] OTHER -> 6

\* C9: whichever procedure propagates an object's attributes, the writes
\* of the source's attributes happen in the order extended attributes,
\* ownership, mode, timestamps, ACL.
C9_AttributeOrder ==
    md.pc # "idle" =>
      \A i \in DOMAIN md.log, j \in DOMAIN md.log :
        (i < j /\ md.log[i] \in Attributes /\ md.log[j] \in Attributes) =>
          Rank(md.log[i]) < Rank(md.log[j])

\* ---------------------------------------------------------------------
\* copy_single (copy.rs): the checks before the copy of one file.
\* ---------------------------------------------------------------------

BackupModes == {"None", "Numbered", "Existing", "Simple"}

UpdateModes == {"unset", "None", "NoneFail", "Older", "All"}

\* Modification times, in clock ticks.
MaxTime == 2

\* The source is a regular file.  The destination: absent, a file (or a
\* link to one), or a symbolic link to nothing.  `same`: source and
\* destination are one (device, inode).  `readable`: the user may open the
\* source for reading.  `src_mtime`, `dst_mtime`: what stat and lstat
\* report (0 for an absent destination).
SingleFiles ==
    {f \in [dst : {"absent", "file", "dangling"}, same : BOOLEAN,
            readable : BOOLEAN, src_mtime : 1..MaxTime,
            dst_mtime : 0..MaxTime] :
       /\ f.same => f.dst = "file" /\ f.dst_mtime = f.src_mtime
       /\ f.dst = "absent" <=> f.dst_mtime = 0}

\* The flags of the command line (cli.rs).
SingleOptions ==
    [backup : BackupModes, remove_destination : BOOLEAN, force : BOOLEAN,
     update : UpdateModes, no_clobber : BOOLEAN, interactive : BOOLEAN]

\* CopyOptions::from_cli, options.rs lines 161-190: the flags are copied,
\* except no_clobber, which is cleared when interactive is set.
from_cli(cli) ==
    [cli EXCEPT !.no_clobber = cli.no_clobber /\ ~cli.interactive]

SingleInit ==
    /\ nk = Idle
    /\ mx = Idle
    /\ eq = Idle
    /\ op = Idle
    /\ dr = Idle
    /\ xa = Idle
    /\ pl = Idle
    /\ fc = Idle /\ lk = Idle /\ wk = Idle /\ cs = Idle
    /\ rn = Idle /\ cc = Idle /\ md = Idle
    /\ up = Idle /\ bk = Idle /\ ds = Idle
    /\ \E f \in SingleFiles, o \in SingleOptions :
         sg = [pc |-> "stat", file |-> f, cli |-> o, opts |-> from_cli(o),
               dst_exists |-> FALSE, skipped_by |-> "none",
               prompted |-> FALSE,
               backed_up |-> FALSE, unlinked |-> FALSE, truncated |-> FALSE,
               result |-> "none"]

\* A return of copy_single.  The result "skipped" is Ok(()) returned by
\* one of the checks before the copy, "ok" is Ok(()) after the copy.
SingleReturns(s, r) == [s EXCEPT !.pc = "done", !.result = r]

\* util::is_same_file, util.rs lines 10-12: same_file::is_same_file opens
\* both paths to compare their (device, inode); when an open fails the
\* error is turned into false.
is_same_file(f) == IF f.readable THEN f.same ELSE FALSE

\* copy.rs, lines 46-58: one lstat of the destination, and the refusal to
\* write through a dangling symbolic link.
StatDest ==
    /\ sg.pc = "stat"
    /\ sg' = IF sg.file.dst = "dangling" /\ ~sg.opts.force
                /\ ~sg.opts.remove_destination
             THEN SingleReturns(sg, "DanglingSymlink")
             ELSE [sg EXCEPT !.pc = "same", !.dst_exists = sg.file.dst # "absent"]
    /\ UNCHANGED <<fc, lk, wk, cs, rn, cc, md, up, bk, ds, pl, xa, dr, op, eq, mx, nk>>

\* copy.rs, lines 60-66.
SameFileCheck ==
    /\ sg.pc = "same"
    /\ sg' = IF sg.dst_exists /\ is_same_file(sg.file)
             THEN SingleReturns(sg, "SameFile")
             ELSE [sg EXCEPT !.pc = "update"]
    /\ UNCHANGED <<fc, lk, wk, cs, rn, cc, md, up, bk, ds, pl, xa, dr, op, eq, mx, nk>>

older_skips_strict(f) == f.dst_mtime > f.src_mtime

\* copy.rs, line 76: dm.modified().ok() >= src_meta.modified().ok().
older_skips(f) == f.dst_mtime >= f.src_mtime

\* copy.rs, lines 68-83: the update check.
UpdateCheck ==
    /\ sg.pc = "update"
    /\ sg' = IF sg.opts.update # "unset" /\ sg.dst_exists
                /\ \/ sg.opts.update \in {"None", "NoneFail"}
                   \/ sg.opts.update = "Older" /\ older_skips(sg.file)
             THEN [SingleReturns(sg, "skipped") EXCEPT !.skipped_by = "update"]
             ELSE [sg EXCEPT !.pc = "no_clobber"]
    /\ UNCHANGED <<fc, lk, wk, cs, rn, cc, md, up, bk, ds, pl, xa, dr, op, eq, mx, nk>>

\* copy.rs, lines 85-88: the no-clobber check.
NoClobberCheck ==
    /\ sg.pc = "no_clobber"
    /\ sg' = IF sg.opts.no_clobber /\ sg.dst_exists
             THEN [SingleReturns(sg, "skipped") EXCEPT
                     !.skipped_by = "no_clobber"]
             ELSE [sg EXCEPT !.pc = "interactive"]
    /\ UNCHANGED <<fc, lk, wk, cs, rn, cc, md, up, bk, ds, pl, xa, dr, op, eq, mx, nk>>

\* copy.rs, lines 90-96 with util::prompt_yes, util.rs lines 111-120: the
\* question is written and a line of standard input is read; anything
\* but y or yes (end of input included) skips the copy.
InteractiveCheck ==
    /\ sg.pc = "interactive"
    /\ \E yes \in BOOLEAN :
         sg' = IF sg.opts.interactive /\ sg.dst_exists
               THEN IF yes
                    THEN [sg EXCEPT !.pc = "backup", !.prompted = TRUE]
                    ELSE [SingleReturns(sg, "skipped") EXCEPT
                            !.skipped_by = "interactive", !.prompted = TRUE]
               ELSE [sg EXCEPT !.pc = "backup"]
    /\ UNCHANGED <<fc, lk, wk, cs, rn, cc, md, up, bk, ds, pl, xa, dr, op, eq, mx, nk>>

\* copy.rs, lines 98-101, with backup::make_backup, backup.rs lines 7-35:
\* the destination is renamed when it exists (a dangling link does not)
\* and a backup mode is set; a failing rename is ignored.
Backup ==
    /\ sg.pc = "backup"
    /\ \E renamed \in BOOLEAN :
         sg' = [sg EXCEPT !.pc = "remove",
                          !.backed_up = /\ sg.dst_exists
                                        /\ sg.opts.backup # "None"
                                        /\ sg.file.dst = "file"
                                        /\ renamed]
    /\ UNCHANGED <<fc, lk, wk, cs, rn, cc, md, up, bk, ds, pl, xa, dr, op, eq, mx, nk>>

\* copy.rs, lines 103-111: remove_file, else remove_dir_all, else the
\* Remove error.  Nothing is left to remove after a backup rename.
RemoveDestination ==
    /\ sg.pc = "remove"
    /\ \E removed \in BOOLEAN :
         sg' = IF sg.opts.remove_destination /\ sg.dst_exists
               THEN IF removed /\ ~sg.backed_up
                    THEN [sg EXCEPT !.pc = "copy", !.unlinked = TRUE]
                    ELSE SingleReturns(sg, "Remove")
               ELSE [sg EXCEPT !.pc = "copy"]
    /\ UNCHANGED <<fc, lk, wk, cs, rn, cc, md, up, bk, ds, pl, xa, dr, op, eq, mx, nk>>

\* copy.rs, lines 113-131 with copy_regular_file, lines 166-173: the source
\* is opened, then the destination is created or truncated.  The source
\* is gone when it was the destination that was renamed or removed.
CopyByType ==
    /\ sg.pc = "copy"
    /\ LET gone == sg.file.same /\ (sg.backed_up \/ sg.unlinked)
       IN \E created \in BOOLEAN :
            sg' = IF gone \/ ~sg.file.readable THEN SingleReturns(sg, "OpenRead")
                  ELSE IF ~created THEN SingleReturns(sg, "CreateFile")
                  ELSE [SingleReturns(sg, "ok") EXCEPT
                          !.truncated = /\ sg.dst_exists
                                        /\ ~sg.backed_up /\ ~sg.unlinked]
    /\ UNCHANGED <<fc, lk, wk, cs, rn, cc, md, up, bk, ds, pl, xa, dr, op, eq, mx, nk>>

SingleNext ==
    \/ StatDest
    \/ SameFileCheck
    \/ UpdateCheck
    \/ NoClobberCheck
    \/ InteractiveCheck
    \/ Backup
    \/ RemoveDestination
    \/ CopyByType

\* One call of copy_single on a regular source file.
SpecSingle == SingleInit /\ [][SingleNext]_vars

\* C10: when the source and an existing destination are one (device,
\* inode), copy_single returns the same-file error and has not renamed,
\* unlinked or truncated the destination, whatever the backup,
\* remove_destination, force, update and no_clobber options.
C10_SameFileUntouched ==
    sg.pc = "done" /\ sg.file.same =>
      /\ sg.result = "SameFile"
      /\ ~sg.backed_up /\ ~sg.unlinked /\ ~sg.truncated

\* The destination of copy_single was not renamed, removed or truncated.
Untouched(s) == ~s.backed_up /\ ~s.unlinked /\ ~s.truncated

\* C11: when -n and -i are both given on the command line and the
\* destination exists, copy_single returns without having consulted the
\* prompt and the destination is untouched.
C11_NoClobberWins ==
    sg.pc = "done" /\ sg.cli.no_clobber /\ sg.cli.interactive
      /\ sg.dst_exists =>
        ~sg.prompted /\ Untouched(sg)

\* The update check of copy_single has been passed or has returned.
PastUpdateCheck(s) ==
    /\ s.pc \notin {"stat", "same", "update"}
    /\ s.result \notin {"DanglingSymlink", "SameFile"}

\* C12: with an existing destination and update set, the update check
\* returns Ok, the destination unmodified, exactly when update is None or
\* NoneFail, or update is Older and the destination's mtime is at least
\* the source's; with All, or Older and an older destination, copy_single
\* goes on past the update check.
C12_UpdateSkip ==
    PastUpdateCheck(sg) /\ sg.dst_exists /\ sg.opts.update # "unset" =>
      LET skip == \/ sg.opts.update \in {"None", "NoneFail"}
                  \/ /\ sg.opts.update = "Older"
                     /\ sg.file.dst_mtime >= sg.file.src_mtime
      IN /\ skip <=> sg.skipped_by = "update"
         /\ skip => sg.pc = "done" /\ sg.result = "skipped" /\ Untouched(sg)

\* Older with equal modification times: the copy was skipped.
C12_Witness ==
    /\ sg.pc = "done" /\ sg.dst_exists /\ sg.opts.update = "Older"
    /\ sg.file.dst_mtime = sg.file.src_mtime
    /\ sg.skipped_by = "update" /\ sg.result = "skipped"

\* C15: with a backup mode other than None, when copy_single returns
\* having truncated or removed an existing destination file, that file
\* was first renamed to its backup path.
C15_BackupBeforeOverwrite ==
    sg.pc = "done" /\ sg.opts.backup # "None" /\ sg.file.dst = "file"
      /\ ~sg.file.same =>
        (sg.truncated \/ sg.unlinked => sg.backed_up)

\* ---------------------------------------------------------------------
\* The same copy run twice with --update=older (main.rs copy_source,
\* dir.rs copy_directory_walkdir, copy.rs copy_single).
\* ---------------------------------------------------------------------

\* Files in the source directory.
MaxEntries == 2

\* One operand: a regular file (recursive FALSE, entry 1 alone) or a
\* directory of MaxEntries regular files.  `shared`: the files are names
\* of one inode, so they have one modification time.  The sources were
\* last modified before the first run and are not changed afterwards.
\* dst_mtime 0: the destination name does not exist.
RerunConfigs ==
    {c \in [recursive : BOOLEAN, preserve_links : BOOLEAN,
            preserve_mode : BOOLEAN, preserve_timestamps : BOOLEAN,
            shared : BOOLEAN, dir_exists : BOOLEAN,
            src_mtime : [1..MaxEntries -> 1..MaxTime],
            dst_mtime : [1..MaxEntries -> 0..MaxTime]] :
       /\ c.shared => \A f \in 1..MaxEntries : c.src_mtime[f] = c.src_mtime[1]
       /\ ~c.recursive =>
            /\ ~c.shared /\ ~c.dir_exists
            /\ \A f \in 2..MaxEntries : c.src_mtime[f] = 1 /\ c.dst_mtime[f] = 0
       /\ c.recursive /\ ~c.dir_exists =>
            \A f \in 1..MaxEntries : c.dst_mtime[f] = 0}

\* The entries one run visits.
EntryCount(c) == IF c.recursive THEN MaxEntries ELSE 1

RerunInit ==
    /\ nk = Idle
    /\ mx = Idle
    /\ eq = Idle
    /\ op = Idle
    /\ dr = Idle
    /\ xa = Idle
    /\ pl = Idle
    /\ fc = Idle /\ lk = Idle /\ wk = Idle /\ cs = Idle /\ rn = Idle
    /\ cc = Idle /\ md = Idle /\ sg = Idle /\ bk = Idle /\ ds = Idle
    /\ \E c \in RerunConfigs :
         up = [pc |-> "start", cfg |-> c, run |-> 1, i |-> 1,
               dir_exists |-> c.dir_exists,
               dst_mtime |-> c.dst_mtime,
               dst_ino |-> [f \in 1..MaxEntries |->
                              IF c.dst_mtime[f] = 0 THEN 0 ELSE f],
               hard_link_map |-> 0, dir_metadata |-> FALSE,
               writes |-> {},
               after1 |-> [dst_mtime |-> c.dst_mtime,
                           dst_ino |-> [f \in 1..MaxEntries |-> 0]]]

\* The clock of a run: later than every source's modification time.
Now(s) == MaxTime + s.run

\* An error returned through ? ends the run.
RerunFail(s) == [s EXCEPT !.pc = "failed"]

\* main.rs lines 84-106 and dir.rs lines 902-978: a file operand goes to
\* copy_single; for a directory the walker's first entry is the root,
\* created when absent and pushed on dir_metadata when mode, ownership
\* or timestamps are preserved.
RerunStart ==
    /\ up.pc = "start"
    /\ \E ok \in BOOLEAN :
         up' = IF ~up.cfg.recursive THEN [up EXCEPT !.pc = "walk"]
               ELSE IF ~up.dir_exists /\ ~ok THEN RerunFail(up)
               ELSE [up EXCEPT
                       !.pc = "walk",
                       !.dir_exists = TRUE,
                       !.writes = IF up.dir_exists THEN @
                                  ELSE @ \cup {<<"mkdir", 0>>},
                       !.dir_metadata = up.cfg.preserve_mode
                                        \/ up.cfg.preserve_timestamps]
    /\ UNCHANGED <<fc, lk, wk, cs, rn, cc, md, sg, bk, ds, pl, xa, dr, op, eq, mx, nk>>

\* dir.rs lines 1009-1028: the hard-link ledger of the slow path.  A
\* later name of a known inode is removed when it exists and linked to
\* the first destination, before copy_single and its update check.
RerunHardLink(s, f, ok) ==
    IF ~ok THEN RerunFail(s)
    ELSE [s EXCEPT
            !.i = f + 1,
            !.writes = @ \cup {<<"link", f>>}
                         \cup (IF s.dst_mtime[f] # 0
                               THEN {<<"unlink", f>>} ELSE {}),
            !.dst_ino[f] = s.dst_ino[s.hard_link_map],
            !.dst_mtime[f] = s.dst_mtime[s.hard_link_map]]

\* copy.rs lines 68-83 and 113-131, metadata.rs lines 49-57: copy_single
\* with update = Older returns when the destination is not older; else
\* the destination is created or truncated and written (its inode's
\* mtime becomes the clock), then mode and timestamps are set when
\* preserved.
RerunCopySingle(s, f, ok) ==
    IF s.dst_mtime[f] # 0 /\ older_skips([dst_mtime |-> s.dst_mtime[f],
                                          src_mtime |-> s.cfg.src_mtime[f]])
    THEN [s EXCEPT !.i = f + 1]
    ELSE IF ~ok THEN RerunFail(s)
    ELSE LET ino == IF s.dst_ino[f] = 0 THEN f ELSE s.dst_ino[f]
             t == IF s.cfg.preserve_timestamps
                  THEN s.cfg.src_mtime[f] ELSE Now(s)
         IN [s EXCEPT
               !.i = f + 1,
               !.writes = @ \cup {<<"create", f>>}
                            \cup (IF s.cfg.preserve_mode
                                  THEN {<<"chmod", f>>} ELSE {})
                            \cup (IF s.cfg.preserve_timestamps
                                  THEN {<<"utimens", f>>} ELSE {}),
               !.dst_ino[f] = ino,
               !.dst_mtime = [g \in 1..MaxEntries |->
                                IF g = f \/ (s.dst_ino[g] # 0 /\ s.dst_ino[g] = ino)
                                THEN t ELSE s.dst_mtime[g]]]

\* dir.rs lines 930-1033 (one entry of the walk), or main.rs line 127
\* for a file operand.
RerunEntry ==
    /\ up.pc = "walk" /\ up.i <= EntryCount(up.cfg)
    /\ LET f == up.i
           tracked == up.cfg.recursive /\ up.cfg.preserve_links
                        /\ up.cfg.shared
       IN \E ok \in BOOLEAN :
            up' = IF tracked /\ up.hard_link_map # 0
                  THEN RerunHardLink(up, f, ok)
                  ELSE RerunCopySingle(
                         [up EXCEPT !.hard_link_map =
                                       IF tracked THEN f ELSE @], f, ok)
    /\ UNCHANGED <<fc, lk, wk, cs, rn, cc, md, sg, bk, ds, pl, xa, dr, op, eq, mx, nk>>

\* dir.rs lines 1037-1039: preserve_metadata on every directory pushed.
RerunDirMeta ==
    /\ up.pc = "walk" /\ up.i > EntryCount(up.cfg)
    /\ \E ok \in BOOLEAN :
         up' = IF ~up.dir_metadata THEN [up EXCEPT !.pc = "ret"]
               ELSE IF ~ok THEN RerunFail(up)
               ELSE [up EXCEPT
                       !.pc = "ret",
                       !.writes = @ \cup (IF up.cfg.preserve_mode
                                          THEN {<<"chmod", 0>>} ELSE {})
                                    \cup (IF up.cfg.preserve_timestamps
                                          THEN {<<"utimens", 0>>} ELSE {})]
    /\ UNCHANGED <<fc, lk, wk, cs, rn, cc, md, sg, bk, ds, pl, xa, dr, op, eq, mx, nk>>

\* The run returns Ok; the same command is then given once more.
RerunEnd ==
    /\ up.pc = "ret"
    /\ up' = IF up.run = 1
             THEN [up EXCEPT !.pc = "start", !.run = 2, !.i = 1,
                             !.hard_link_map = 0, !.dir_metadata = FALSE,
                             !.writes = {},
                             !.after1 = [dst_mtime |-> up.dst_mtime,
                                         dst_ino |-> up.dst_ino]]
             ELSE [up EXCEPT !.pc = "done"]
    /\ UNCHANGED <<fc, lk, wk, cs, rn, cc, md, sg, bk, ds, pl, xa, dr, op, eq, mx, nk>>

RerunNext ==
    \/ RerunStart
    \/ RerunEntry
    \/ RerunDirMeta
    \/ RerunEnd

\* Two runs of cp --update=older on one operand.
SpecRerun == RerunInit /\ [][RerunNext]_vars

\* C13: the second run with update = Older on unchanged sources makes
\* no write on the destination (no create or truncate, unlink, link or
\* attribute change) and leaves it as the first run left it, for a file
\* and for a directory, under every preserve flag, hard links or not.
C13_SecondRunWritesNothing ==
    up.pc = "done" =>
      /\ up.writes = {}
      /\ up.dst_mtime = up.after1.dst_mtime
      /\ up.dst_ino = up.after1.dst_ino

\* ---------------------------------------------------------------------
\* backup::make_backup (backup.rs) under successive copies over one
\* destination.
\* ---------------------------------------------------------------------

\* Successive copies over the destination.
MaxCopies == 3

\* Contents: version k is what the k-th copy writes, version 0 what the
\* destination holds at first.  Absent: no such path.  Foreign: a backup
\* that was there before the first copy.
Absent == -1

Foreign == -2

\* Backup paths: slot 0 is dst + suffix, slot N >= 1 is dst.~N~.
Slots == 0..(2 * MaxCopies)

\* File names are sequences of characters.  The destination is "f" and
\* the suffix is the default "~".
DestName == <<"f">>

Suffix == <<"~">>

DigitChars == <<"0", "1", "2", "3", "4", "5", "6", "7", "8", "9">>

\* backup.rs line 47: format!("{}", n).
RECURSIVE Decimal(_)
Decimal(n) ==
    IF n < 10 THEN <<DigitChars[n + 1]>>
    ELSE Decimal(n \div 10) \o <<DigitChars[(n % 10) + 1]>>

\* backup.rs lines 37-41 and 46-48: the name of a backup slot.
SlotName(n) ==
    IF n = 0 THEN DestName \o Suffix
    ELSE DestName \o <<".", "~">> \o Decimal(n) \o <<"~">>

\* One more entry of the destination's directory, or none (<<>>):
\* f.~9~ is a numbered backup of f outside the slots, fb.~1~ and
\* f.b.~1~ are numbered backups of the files fb and f.b, f.~b~ and f.~~
\* carry no number, g.~1~ is the backup of a file with another name.
StrayNames ==
    { <<>>,
      <<"f", ".", "~", "9", "~">>,
      <<"f", "b", ".", "~", "1", "~">>,
      <<"f", ".", "b", ".", "~", "1", "~">>,
      <<"f", ".", "~", "b", "~">>,
      <<"f", ".", "~", "~">>,
      <<"f", "b">>,
      <<"g", ".", "~", "1", "~">> }

BackupInit ==
    /\ nk = Idle
    /\ mx = Idle
    /\ eq = Idle
    /\ op = Idle
    /\ dr = Idle
    /\ xa = Idle
    /\ pl = Idle
    /\ fc = Idle /\ lk = Idle /\ wk = Idle /\ cs = Idle /\ rn = Idle
    /\ cc = Idle /\ md = Idle /\ sg = Idle /\ up = Idle /\ ds = Idle
    /\ \E m \in BackupModes \ {"None"}, P \in SUBSET (1..MaxCopies),
          s \in StrayNames :
         bk = [pc |-> "backup", mode |-> m, dst |-> 0, k |-> 1, stray |-> s,
               slot |-> [n \in Slots |-> IF n \in P THEN Foreign ELSE Absent],
               made |-> <<>>, rename_failed |-> FALSE, copy_failed |-> FALSE]

\* backup.rs lines 37-41.
simple_backup_path == 0

numbered_backup_path_first(slot) == 1

\* backup.rs lines 43-54: the first n >= 1 whose candidate does not exist.
numbered_backup_path(slot) ==
    CHOOSE n \in Slots \ {0} :
      /\ slot[n] = Absent
      /\ \A j \in 1..(n - 1) : slot[j] # Absent

\* str::contains and str::ends_with (str::starts_with is IsPrefix).
contains(s, p) ==
    \E i \in 1..(Len(s) - Len(p) + 1) : SubSeq(s, i, i + Len(p) - 1) = p

ends_with(s, p) ==
    Len(s) >= Len(p) /\ SubSeq(s, Len(s) - Len(p) + 1, Len(s)) = p

\* fs::read_dir(parent): the destination, the backups in the slots and
\* the stray entry.
read_dir(dst, slot, stray) ==
    (IF dst = Absent THEN {} ELSE {DestName})
      \cup {SlotName(n) : n \in {j \in Slots : slot[j] # Absent}}
      \cup (IF stray = <<>> THEN {} ELSE {stray})

\* backup.rs lines 56-77: some entry of the directory starts with the
\* destination's name, contains ".~" and ends with '~'.
has_numbered_backups(name, entries) ==
    \E entry_str \in entries :
      /\ IsPrefix(name, entry_str)
      /\ contains(entry_str, <<".", "~">>)
      /\ ends_with(entry_str, <<"~">>)

\* backup.rs lines 16-28.
backup_path(mode, dst, slot, stray) ==
    CASE mode = "Simple" -> simple_backup_path
      [] mode = "Numbered" -> numbered_backup_path(slot)
      [] mode = "Existing" ->
           IF has_numbered_backups(DestName, read_dir(dst, slot, stray))
           THEN numbered_backup_path(slot)
           ELSE simple_backup_path

\* copy.rs lines 98-101 with backup.rs lines 7-35: nothing when the
\* destination does not exist; else the destination is renamed to the
\* backup path, and a failed rename is ignored.
MakeBackup ==
    /\ bk.pc = "backup"
    /\ \E renamed \in BOOLEAN :
         bk' = IF bk.dst = Absent THEN [bk EXCEPT !.pc = "copy"]
               ELSE IF ~renamed
               THEN [bk EXCEPT !.pc = "copy", !.rename_failed = TRUE]
               ELSE LET n == backup_path(bk.mode, bk.dst, bk.slot, bk.stray)
                    IN [bk EXCEPT !.pc = "copy",
                                  !.slot[n] = bk.dst,
                                  !.dst = Absent,
                                  !.made = Append(@, n)]
    /\ UNCHANGED <<fc, lk, wk, cs, rn, cc, md, sg, up, ds, pl, xa, dr, op, eq, mx, nk>>

\* copy.rs lines 113-137: the k-th copy writes version k, or fails
\* before it created the destination; the next copy follows.
CopyOver ==
    /\ bk.pc = "copy"
    /\ \E ok \in BOOLEAN :
         bk' = [bk EXCEPT
                  !.pc = IF bk.k = MaxCopies THEN "done" ELSE "backup",
                  !.k = IF bk.k = MaxCopies THEN @ ELSE @ + 1,
                  !.dst = IF ok THEN bk.k ELSE @,
                  !.copy_failed = @ \/ ~ok]
    /\ UNCHANGED <<fc, lk, wk, cs, rn, cc, md, sg, up, ds, pl, xa, dr, op, eq, mx, nk>>

BackupNext ==
    \/ MakeBackup
    \/ CopyOver

\* MaxCopies runs of cp --backup=... src dst over one destination.
SpecBackup == BackupInit /\ [][BackupNext]_vars

\* The numbered backups that were there before the first copy.
ForeignSlots(s) == {n \in Slots \ {0} : s.slot[n] = Foreign}

PastClone(f) ==
    /\ f.pc \notin {"idle", "open", "z_setlen", "z_loop", "a_scan",
                    "a_region", "a_read", "reopen", "e_clone"}
    /\ \E i \in 1..Len(f.tried) : f.tried[i] = "engine"

\* The steps of copy_file_data tried so far, in order.
EngineSteps(f) ==
    SelectSeq(f.tried, LAMBDA x : x \in {"clone", "cfr", "sf", "rw"})

\* C16: copy_file_data tries the clone ioctl exactly when reflink is
\* Always, or Auto with a size of at least 256 KiB; a failed clone under
\* Always returns the Copy error with no later step tried and no byte
\* transferred; a failed clone under Auto is followed by the in-kernel
\* copy step.
C16_CloneStep ==
    PastClone(fc) =>
      /\ fc.cloned # "none" <=>
           \/ fc.reflink = "Always"
           \/ fc.reflink = "Auto" /\ Size(fc) >= 256 * 1024
      /\ fc.cloned = "failed" /\ fc.reflink = "Always" =>
           /\ fc.pc = "done" /\ fc.result = "err" /\ fc.err = "Copy"
           /\ EngineSteps(fc) = <<"clone">>
           /\ fc.dlen = 0 /\ \A i \in DOMAIN fc.dcnt : fc.dcnt[i] = 0
      /\ fc.cloned = "failed" /\ fc.reflink # "Always" =>
           /\ ~(fc.pc = "done" /\ fc.err = "Copy")
           /\ Len(EngineSteps(fc)) >= 2 => EngineSteps(fc)[2] = "cfr"
           /\ Len(EngineSteps(fc)) = 1 => fc.pc = "e_cfr"

\* Auto on a file of exactly 256 KiB: the clone was tried and failed, and
\* the in-kernel copy completed the copy.
C16_Witness ==
    /\ fc.reflink = "Auto" /\ Size(fc) = FICLONE_THRESHOLD
    /\ fc.cloned = "failed" /\ fc.engine = "ok"
    /\ fc.tag = "copy_file_range" /\ EngineSteps(fc) = <<"clone", "cfr">>

\* C17: in Auto mode copy_sparse returns true, with the hole-preserving
\* copy made, exactly when the scanned data regions sum to less than
\* the file's length, a file without any data region included; and
\* when it returns false it has written nothing to the destination.
C17_AutoSparseDecision ==
    fc.pc # "idle" /\ fc.sparse = "Auto" /\ fc.sparseRet # "none" =>
      /\ fc.sparseRet = "true" <=> SumLengths(fc.regions) < Size(fc)
      /\ fc.sparseRet = "true" =>
           /\ DstEqualsSrc(fc)
           /\ \A i \in DOMAIN fc.src : fc.src[i] = "hole" => fc.dcnt[i] = 0
      /\ fc.sparseRet = "false" /\ fc.pc = "reopen" =>
           fc.dlen = 0 /\ \A i \in DOMAIN fc.dcnt : fc.dcnt[i] = 0

\* Both files were opened by copy_regular_file.
PastOpen(f) ==
    /\ f.pc \notin {"idle", "open"}
    /\ ~(f.tried = <<>> /\ f.err \in {"OpenRead", "CreateFile"})

\* C18: the single-file driver calls the sparse subsystem exactly when
\* sparse is not Never and the source has at least 32768 bytes (32767
\* bytes go straight to the engine, 32768 bytes to the sparse
\* subsystem); an empty source calls neither, its destination is
\* created and preserve_metadata is called.
C18_SparseThreshold ==
    PastOpen(fc) =>
      /\ (\E i \in 1..Len(fc.tried) : fc.tried[i] = "sparse") <=>
           (fc.sparse # "Never" /\ Size(fc) >= 32768)
      /\ Size(fc) > 0 /\ ~(fc.sparse # "Never" /\ Size(fc) >= 32768) =>
           fc.tried[1] = "engine"
      /\ Size(fc) = 0 =>
           /\ fc.tried = <<>> /\ fc.dexists /\ fc.dlen = 0
           /\ \/ fc.pc = "meta"
              \/ fc.pc = "done" /\ (fc.result = "ok" \/ fc.err = "Metadata")

\* A source of exactly 32768 bytes was offered to the sparse subsystem.
C18_Witness ==
    /\ fc.pc = "done" /\ fc.result = "ok" /\ Size(fc) = SPARSE_THRESHOLD
    /\ fc.sparse = "Auto" /\ fc.tried[1] = "sparse"

\* ---------------------------------------------------------------------
\* Descriptors of copy_directory (dir.rs): the raw walker's directory
\* and file descriptors.  A descriptor is <<kind, d>>: "src" and "dst"
\* of directory d (0 the root, k >= 1 its k-th subdirectory), "dirp"
\* the duplicate owned by the DIR stream, "fsrc" and "fdst" of the
\* regular file of directory d.
\* ---------------------------------------------------------------------

\* Subdirectories of the root.
MaxChildren == 2

\* The tree: the root with nc subdirectories (which have none), and
\* whether the root and the subdirectories hold a regular file.  `fast`:
\* copy_directory takes the raw walker (is_simple_opts and not -L).
FdConfigs ==
    [nc : 0..MaxChildren, root_file : BOOLEAN, child_file : BOOLEAN,
     fast : BOOLEAN]

FdInit ==
    /\ nk = Idle
    /\ mx = Idle
    /\ eq = Idle
    /\ op = Idle
    /\ dr = Idle
    /\ xa = Idle
    /\ pl = Idle
    /\ fc = Idle /\ lk = Idle /\ wk = Idle /\ cs = Idle /\ rn = Idle
    /\ cc = Idle /\ md = Idle /\ sg = Idle /\ up = Idle /\ bk = Idle
    /\ \E c \in FdConfigs :
         ds = [pc |-> "start", cfg |-> c, cur |-> 0, e |-> 1,
               subdirs |-> <<>>, open |-> {}, result |-> "none"]

\* open, openat, dup: descriptors are opened.
Opens(s, fds) == [s EXCEPT !.open = @ \cup fds]

\* close, closedir.

Closes(s, fds) == [s EXCEPT !.open = @ \ fds]

\* An Err travels up through every ? to the caller of copy_directory;
\* no frame on the way closes anything.
FdReturnErr(s) == [s EXCEPT !.pc = "done", !.result = "err"]

\* Whether directory d holds a regular file.
HasFile(c, d) == IF d = 0 THEN c.root_file ELSE c.child_file

\* dir.rs lines 38-45 and 62-72: the dispatch; on the raw path the
\* destination root is created and both roots are opened, each with ?.
\* The walkdir path (lines 902-1042) holds its files and directory
\* streams in owned values, dropped at every return.
FdStart ==
    /\ ds.pc = "start"
    /\ \E out \in {"ok", "mkdir_fail", "src_fail", "dst_fail"} :
         ds' = IF ~ds.cfg.fast
               THEN [ds EXCEPT !.pc = "done",
                               !.result = IF out = "ok" THEN "ok" ELSE "err"]
               ELSE CASE out = "ok" ->
                           [Opens(ds, {<<"src", 0>>, <<"dst", 0>>})
                              EXCEPT !.pc = "opendir"]
                      [] out = "dst_fail" ->
                           FdReturnErr(Opens(ds, {<<"src", 0>>}))
                      [] OTHER -> FdReturnErr(ds)
    /\ UNCHANGED <<fc, lk, wk, cs, rn, cc, md, sg, up, bk, pl, xa, dr, op, eq, mx, nk>>

\* dir.rs lines 147-163: dup and fdopendir; a failed fdopendir closes
\* the duplicate.
FdOpenDir ==
    /\ ds.pc = "opendir"
    /\ \E out \in {"ok", "dup_fail", "fdopendir_fail"} :
         ds' = IF out = "ok"
               THEN [Opens(ds, {<<"dirp", ds.cur>>})
                       EXCEPT !.pc = "readdir", !.e = 1]
               ELSE FdReturnErr(ds)
    /\ UNCHANGED <<fc, lk, wk, cs, rn, cc, md, sg, up, bk, pl, xa, dr, op, eq, mx, nk>>

\* dir.rs lines 193-261: a DT_DIR entry.  A failed mkdirat closes the
\* stream and returns; the two openat: both descriptors are kept in
\* subdirs, or the one that opened is closed.
FdReadSubdir ==
    /\ ds.pc = "readdir" /\ ds.cur = 0 /\ ds.e <= ds.cfg.nc
    /\ \E out \in {"ok", "mkdir_fail", "open_fail"} :
         ds' = CASE out = "ok" ->
                      [Opens(ds, {<<"src", ds.e>>, <<"dst", ds.e>>})
                         EXCEPT !.subdirs = Append(@, ds.e), !.e = @ + 1]
                 [] out = "mkdir_fail" ->
                      FdReturnErr(Closes(ds, {<<"dirp", 0>>}))
                 [] OTHER ->
                      [Closes(Opens(ds, {<<"src", ds.e>>}), {<<"src", ds.e>>})
                         EXCEPT !.e = @ + 1]
    /\ UNCHANGED <<fc, lk, wk, cs, rn, cc, md, sg, up, bk, pl, xa, dr, op, eq, mx, nk>>

\* dir.rs lines 174-176 and 275: readdir returns null, closedir.
FdCloseDir ==
    /\ ds.pc = "readdir" /\ (ds.cur # 0 \/ ds.e > ds.cfg.nc)
    /\ ds' = [Closes(ds, {<<"dirp", ds.cur>>}) EXCEPT !.pc = "files"]
    /\ UNCHANGED <<fc, lk, wk, cs, rn, cc, md, sg, up, bk, pl, xa, dr, op, eq, mx, nk>>

\* dir.rs lines 398-496 (copy_file_openat; copy_file_openat_mt, lines
\* 595-682, opens and closes alike): openat of the source, fstat,
\* openat of the destination with the force retry; each failure after
\* the first open closes the source descriptor.
FdOpenFile ==
    /\ ds.pc = "files"
    /\ \E out \in {"ok", "src_fail", "stat_fail", "dst_fail"} :
         ds' = IF ~HasFile(ds.cfg, ds.cur) THEN [ds EXCEPT !.pc = "others"]
               ELSE CASE out = "ok" ->
                           [Opens(ds, {<<"fsrc", ds.cur>>, <<"fdst", ds.cur>>})
                              EXCEPT !.pc = "copy"]
                      [] out = "src_fail" -> FdReturnErr(ds)
                      [] OTHER ->
                           FdReturnErr(Closes(Opens(ds, {<<"fsrc", ds.cur>>}),
                                              {<<"fsrc", ds.cur>>}))
    /\ UNCHANGED <<fc, lk, wk, cs, rn, cc, md, sg, up, bk, pl, xa, dr, op, eq, mx, nk>>

\* dir.rs lines 689-754: copy_and_close closes both and returns Ok.
FdCopyAndClose ==
    /\ ds.pc = "copy"
    /\ ds' = [Closes(ds, {<<"fsrc", ds.cur>>, <<"fdst", ds.cur>>})
                EXCEPT !.pc = "others"]
    /\ UNCHANGED <<fc, lk, wk, cs, rn, cc, md, sg, up, bk, pl, xa, dr, op, eq, mx, nk>>

\* dir.rs lines 298-373: special files and symbolic links, made by name
\* under the directory descriptors; mknodat and copy_symlink_at errors
\* are returned.
FdOthers ==
    /\ ds.pc = "others"
    /\ \E ok \in BOOLEAN :
         ds' = IF ok THEN [ds EXCEPT !.pc = "recurse"] ELSE FdReturnErr(ds)
    /\ UNCHANGED <<fc, lk, wk, cs, rn, cc, md, sg, up, bk, pl, xa, dr, op, eq, mx, nk>>

\* dir.rs lines 376-377: the next subdirectory's copy_dir_recurse.
FdDescend ==
    /\ ds.pc = "recurse" /\ ds.cur = 0 /\ ds.subdirs # <<>>
    /\ ds' = [ds EXCEPT !.cur = Head(ds.subdirs), !.pc = "opendir"]
    /\ UNCHANGED <<fc, lk, wk, cs, rn, cc, md, sg, up, bk, pl, xa, dr, op, eq, mx, nk>>

\* dir.rs lines 377-384: a subdirectory's call returned Ok; its two
\* descriptors are closed.
FdChildReturn ==
    /\ ds.pc = "recurse" /\ ds.cur # 0
    /\ ds' = [Closes(ds, {<<"src", ds.cur>>, <<"dst", ds.cur>>})
                EXCEPT !.cur = 0, !.subdirs = Tail(@)]
    /\ UNCHANGED <<fc, lk, wk, cs, rn, cc, md, sg, up, bk, pl, xa, dr, op, eq, mx, nk>>

\* dir.rs lines 111-132: the root's call returned Ok; the root
\* descriptors are closed, then the deferred directory metadata is
\* applied, with ? on apply_dir_metadata.
FdRootReturn ==
    /\ ds.pc = "recurse" /\ ds.cur = 0 /\ ds.subdirs = <<>>
    /\ \E ok \in BOOLEAN :
         ds' = [Closes(ds, {<<"src", 0>>, <<"dst", 0>>})
                  EXCEPT !.pc = "done",
                         !.result = IF ok THEN "ok" ELSE "err"]
    /\ UNCHANGED <<fc, lk, wk, cs, rn, cc, md, sg, up, bk, pl, xa, dr, op, eq, mx, nk>>

FdNext ==
    \/ FdStart
    \/ FdOpenDir
    \/ FdReadSubdir
    \/ FdCloseDir
    \/ FdOpenFile
    \/ FdCopyAndClose
    \/ FdOthers
    \/ FdDescend
    \/ FdChildReturn
    \/ FdRootReturn

\* One call of copy_directory.
SpecFds == FdInit /\ [][FdNext]_vars

\* C19: when copy_directory returns, with Ok or with an error, every
\* descriptor opened during the call has been closed.
C19_DescriptorsClosed ==
    ds.pc = "done" => ds.open = {}

\* ---------------------------------------------------------------------
\* Claims on the worker pool's deferred hard links (SpecLinks).
\* ---------------------------------------------------------------------

\* The (original, destination) pairs recorded and not yet linked.
PendingLinks(s) ==
    {s.deferred_links[i] : i \in 1..Len(s.deferred_links)}

\* The destination name of file f as it was before the walk.
InitialName(s, f) == IF s.cfg.pre = "fresh" THEN -1 ELSE MaxFiles + f

\* C20: while the pool runs no file of its directory is hard-linked; a
\* worker that found the inode registered has recorded the pair and
\* has neither opened nor created its destination; the deferred links
\* are made after every worker has returned and only when no error was
\* recorded, and the source of each is by then a destination whose
\* copy_and_close has returned.
C20_DeferredLinksAfterJoin ==
    /\ lk.pc = "pool" =>
         \A f \in FilesOf(lk.cfg, lk.d) : ~lk.linked[f]
    /\ lk.pc \in {"pool", "links"} =>
         \A p \in PendingLinks(lk) :
           /\ ~lk.linked[p[2]] /\ lk.copies[p[2]] = 0 /\ lk.into[p[2]] = -1
           /\ lk.dname[p[2]] = InitialName(lk, p[2])
    /\ lk.pc = "links" =>
         /\ lk.first_err = ""
         /\ \A x \in 1..MaxWorkers : lk.w[x] = IdleWorker
         /\ \A p \in PendingLinks(lk) :
              lk.copies[p[1]] = 1 /\ lk.dname[p[1]] # -1
         /\ \A f \in FilesOf(lk.cfg, lk.d) :
              lk.linked[f] =>
                \E g \in NamesOf(lk, lk.cfg.ino[f]) \ {f} :
                  lk.copies[g] = 1 /\ lk.dname[f] = lk.dname[g]

\* The deferred pass has linked a name of the pool's directory to a
\* destination that another worker of the same pool wrote.
C20_Witness ==
    /\ lk.pc = "links" /\ lk.deferred_links = <<>>
    /\ \E f \in FilesOf(lk.cfg, lk.d), g \in FilesOf(lk.cfg, lk.d) :
         /\ f # g /\ lk.linked[f] /\ lk.copies[f] = 0
         /\ lk.copies[g] = 1 /\ lk.dname[f] = lk.dname[g]

\* ---------------------------------------------------------------------
\* Claims on the hard-link ledger (SpecLinks).
\* ---------------------------------------------------------------------

\* The files whose data copy has begun: copied, or held by a worker that
\* is past the ledger.
Copying(s) ==
    {f \in 1..MaxFiles :
       \/ s.copies[f] > 0
       \/ \E x \in 1..MaxWorkers :
            s.w[x].pc = "copy" /\ s.w[x].chunk # <<>> /\ FileAt(s, x) = f}

\* C21: the ledger holds one destination per (device, inode) key, a name
\* of that inode; a value once inserted is not replaced or removed while
\* the recursive copy runs; of the names of a key only the one in the
\* ledger is ever copied, under every interleaving of the workers; and the
\* ledger put back after a pool, with or without an error, holds every key
\* the workers registered.
C21_LedgerWriteOnce ==
    /\ \A key \in 1..MaxInodes :
         /\ lk.hard_link_map[key] # 0 =>
              lk.hard_link_map[key] \in NamesOf(lk, key)
         /\ lk.result # "err" => lk.hard_link_map[key] = lk.first_reg[key]
    /\ lk.result # "err" =>
         \A f \in Copying(lk) :
           Tracked(lk.cfg, f) => lk.hard_link_map[lk.cfg.ino[f]] = f
    /\ lk.pc # "pool" =>
         \A key \in lk.registered :
           lk.handed[key] # 0 /\ lk.handed[key] = lk.first_reg[key]

\* A pool returned an error and put back a ledger in which a key is held
\* by the name of the later chunk: its worker came first to the ledger.
C21_Witness ==
    /\ lk.pc = "done" /\ lk.result = "err"
    /\ \E key \in lk.registered :
         \E g \in NamesOf(lk, key) :
           /\ g < lk.handed[key]
           /\ lk.cfg.dirOf[g] = lk.cfg.dirOf[lk.handed[key]]
           /\ lk.cfg.wOf[g] # lk.cfg.wOf[lk.handed[key]]

\* ---------------------------------------------------------------------
\* Claims on the phases of copy_dir_recurse (SpecLinks).
\* ---------------------------------------------------------------------

\* Every regular file of directory d is at its destination: copied, or
\* hard-linked to a copy.
FilesDone(s, d) ==
    \A f \in FilesOf(s.cfg, d) : s.copies[f] = 1 \/ s.linked[f]

\* No worker is running and no deferred link is left to make.
PoolOver(s) ==
    /\ s.deferred_links = <<>>
    /\ \A x \in 1..MaxWorkers : s.w[x] = IdleWorker

\* C22: in each directory the special files are created only when every
\* regular file has been copied or linked, all workers have returned and
\* no deferred hard link is left; the symbolic links are made after the
\* loop over the special files; and the subdirectory is entered after the
\* loop over the symbolic links.
C22_PhaseOrder ==
    lk.pc \notin {"idle", "done"} =>
      /\ lk.created # {} => lk.pc \in {"symlinks", "recurse"}
      /\ "lnk" \in lk.created => lk.pc = "recurse"
      /\ lk.pc \in {"symlinks", "recurse"} =>
           FilesDone(lk, lk.d) /\ PoolOver(lk)
      /\ lk.d = 2 => FilesDone(lk, 1)
      /\ lk.d = 1 => \A f \in FilesOf(lk.cfg, 2) :
                       lk.copies[f] = 0 /\ ~lk.linked[f]

\* In a directory copied by the pool, with a name linked by the deferred
\* pass, the special files and the symbolic links have been made and the
\* subdirectory is about to be entered.
C22_Witness ==
    /\ lk.pc = "recurse" /\ lk.d = 1 /\ UsesPool(lk.cfg, 1)
    /\ lk.created = {"spec", "lnk"}
    /\ \E f \in FilesOf(lk.cfg, 1) : lk.linked[f]
    /\ FilesOf(lk.cfg, 2) # {}

\* ---------------------------------------------------------------------
\* The dispatch of a directory's regular files (dir.rs copy_dir_recurse,
\* lines 277-285) and the chunks of the worker pool (copy_files_parallel,
\* lines 514-565).  The files are 1..len in enumeration order.  The
\* interleaving of the workers file by file is in SpecLinks; here a
\* worker's pass over its chunk is one step.
\* ---------------------------------------------------------------------

\* available_parallelism() yields 1..MaxPar, or fails (0).
MaxPar == 9

\* The file counts tried: up to MaxExtra, and PARALLEL_THRESHOLD give or
\* take MaxExtra.
MaxExtra == 1

MAX_THREADS == 8

DEFAULT_THREADS == 4

FileCounts ==
    (0..MaxExtra) \cup
    ((PARALLEL_THRESHOLD - MaxExtra)..(PARALLEL_THRESHOLD + MaxExtra))

\* available_parallelism().map(|n| n.get().min(8)).unwrap_or(4)
n_threads(par) == IF par = 0 THEN DEFAULT_THREADS ELSE Min(par, MAX_THREADS)

\* A chunk size rounded down.
chunk_size_floor(len, par) == len \div n_threads(par)

\* files.len().div_ceil(n_threads)
chunk_size(len, par) == (len + n_threads(par) - 1) \div n_threads(par)

PoolInit ==
    /\ nk = Idle
    /\ mx = Idle
    /\ eq = Idle
    /\ op = Idle
    /\ dr = Idle
    /\ xa = Idle
    /\ fc = Idle /\ lk = Idle /\ wk = Idle /\ cs = Idle /\ rn = Idle
    /\ cc = Idle /\ md = Idle /\ sg = Idle /\ up = Idle /\ bk = Idle
    /\ ds = Idle
    /\ \E len \in FileCounts, par \in 0..MaxPar :
         pl = [pc |-> "dispatch", len |-> len, par |-> par, mode |-> "none",
               i |-> 1, chunks |-> <<>>, ran |-> {},
               handled |-> [k \in 1..len |-> 0],
               first_err |-> "", result |-> "none"]

\* copy_file_openat or copy_file_openat_mt is called for the files lo..hi.
Handle(s, lo, hi) ==
    [s EXCEPT !.handled = [k \in 1..s.len |->
                             IF lo <= k /\ k <= hi THEN s.handled[k] + 1
                             ELSE s.handled[k]]]

\* copy_dir_recurse, line 278: the threshold.
PoolDispatch ==
    /\ pl.pc = "dispatch"
    /\ pl' = IF pl.len >= PARALLEL_THRESHOLD
             THEN [pl EXCEPT !.pc = "spawn", !.mode = "pool"]
             ELSE [pl EXCEPT !.pc = "seq", !.mode = "seq"]
    /\ UNCHANGED <<fc, lk, wk, cs, rn, cc, md, sg, up, bk, ds, xa, dr, op, eq, mx, nk>>

\* copy_dir_recurse, lines 281-284: the sequential loop, one file.
PoolSeqCopy ==
    /\ pl.pc = "seq"
    /\ \E ok \in BOOLEAN :
         pl' = IF pl.i > pl.len
               THEN [pl EXCEPT !.pc = "done", !.result = "ok"]
               ELSE IF ok
               THEN [Handle(pl, pl.i, pl.i) EXCEPT !.i = pl.i + 1]
               ELSE [Handle(pl, pl.i, pl.i) EXCEPT !.pc = "done",
                                                  !.result = "err"]
    /\ UNCHANGED <<fc, lk, wk, cs, rn, cc, md, sg, up, bk, ds, xa, dr, op, eq, mx, nk>>

\* copy_files_parallel, lines 531-533: files.chunks(chunk_size) yields the
\* next chunk and a worker is spawned for it, or the chunks are exhausted.
PoolSpawn ==
    /\ pl.pc = "spawn"
    /\ LET lo == Len(pl.chunks) * chunk_size(pl.len, pl.par) + 1
           hi == Min(lo + chunk_size(pl.len, pl.par) - 1, pl.len)
       IN pl' = IF lo <= pl.len
                THEN [pl EXCEPT !.chunks = Append(pl.chunks, <<lo, hi>>)]
                ELSE [pl EXCEPT !.pc = "join"]
    /\ UNCHANGED <<fc, lk, wk, cs, rn, cc, md, sg, up, bk, ds, xa, dr, op, eq, mx, nk>>

\* copy_files_parallel, lines 533-556: worker x runs over its chunk.  It
\* returns at once when the first-error cell is set; else it copies its
\* files, all of them or up to one that fails (the first or the last of
\* the chunk), whose error it records.
PoolWorker(x) ==
    /\ pl.pc \in {"spawn", "join"}
    /\ x \in 1..Len(pl.chunks) /\ x \notin pl.ran
    /\ LET lo == pl.chunks[x][1]
           hi == pl.chunks[x][2]
           ran == [pl EXCEPT !.ran = pl.ran \cup {x}]
       IN \E bad \in {0, lo, hi} :
            pl' = IF pl.first_err # "" THEN ran
                  ELSE IF bad = 0 THEN Handle(ran, lo, hi)
                  ELSE [Handle(ran, lo, bad) EXCEPT !.first_err = "OpenRead"]
    /\ UNCHANGED <<fc, lk, wk, cs, rn, cc, md, sg, up, bk, ds, xa, dr, op, eq, mx, nk>>

\* copy_files_parallel, lines 558-578: the scope ends when every worker
\* has returned.
PoolJoin ==
    /\ pl.pc = "join"
    /\ pl.ran = 1..Len(pl.chunks)
    /\ pl' = [pl EXCEPT !.pc = "done",
                        !.result = IF pl.first_err # "" THEN "err" ELSE "ok"]
    /\ UNCHANGED <<fc, lk, wk, cs, rn, cc, md, sg, up, bk, ds, xa, dr, op, eq, mx, nk>>

PoolNext ==
    \/ PoolDispatch
    \/ PoolSeqCopy
    \/ PoolSpawn
    \/ \E x \in 1..MAX_THREADS + 1 : PoolWorker(x)
    \/ PoolJoin

\* The regular-file phase of one directory of the fast walker.
SpecPool == PoolInit /\ [][PoolNext]_vars

\* The files of the chunks handed out so far.
InChunk(s, x) == s.chunks[x][1]..s.chunks[x][2]

\* C23: the pool copies the regular files exactly when there are at least
\* PARALLEL_THRESHOLD of them, and below it the main thread copies them
\* one by one in enumeration order; the pool has at most 8 workers; the
\* chunks are disjoint, non-empty, and together the whole list, so that no
\* file is handled twice and every file is handled when the phase
\* succeeds.
C23_PoolThresholdAndChunks ==
    pl.pc \notin {"idle", "dispatch"} =>
      /\ pl.mode = "pool" <=> pl.len >= PARALLEL_THRESHOLD
      /\ pl.mode = "seq" =>
           /\ pl.chunks = <<>> /\ pl.ran = {}
           /\ \A k \in 1..pl.len :
                pl.handled[k] = IF k < pl.i \/ (k = pl.i /\ pl.result = "err")
                                THEN 1 ELSE 0
      /\ Len(pl.chunks) <= MAX_THREADS
      /\ \A x \in 1..Len(pl.chunks) :
           /\ InChunk(pl, x) # {}
           /\ \A y \in 1..Len(pl.chunks) :
                x # y => InChunk(pl, x) \cap InChunk(pl, y) = {}
      /\ pl.pc \in {"join", "done"} /\ pl.mode = "pool" =>
           UNION {InChunk(pl, x) : x \in 1..Len(pl.chunks)} = 1..pl.len
      /\ \A k \in 1..pl.len : pl.handled[k] <= 1
      /\ pl.result = "ok" => \A k \in 1..pl.len : pl.handled[k] = 1

\* A directory of 64 files has been copied by eight workers, on a machine
\* with more than eight processors.
C23_Witness ==
    /\ pl.par > MAX_THREADS
    /\ pl.pc = "done" /\ pl.result = "ok" /\ pl.mode = "pool"
    /\ pl.len = PARALLEL_THRESHOLD /\ Len(pl.chunks) = MAX_THREADS

\* ---------------------------------------------------------------------
\* Claims on the pool's first-error cell (SpecLinks).
\* ---------------------------------------------------------------------

MaxObjects == 3

Procedures == {"preserve_metadata", "copy_and_close", "deferred_dir"}

\* What an extended-attribute or ACL call returns.
CallResults == {"ok", "ENOTSUP", "ENODATA", "EACCES", "EIO"}

CapsInit ==
    /\ nk = Idle
    /\ mx = Idle
    /\ eq = Idle
    /\ op = Idle
    /\ dr = Idle
    /\ fc = Idle /\ lk = Idle /\ wk = Idle /\ cs = Idle /\ rn = Idle
    /\ cc = Idle /\ md = Idle /\ sg = Idle /\ up = Idle /\ bk = Idle
    /\ ds = Idle /\ pl = Idle
    /\ \E px \in BOOLEAN, pa \in BOOLEAN :
         xa = [pc |-> "next", n |-> 0, proc |-> "none",
               preserve_xattr |-> px, preserve_acl |-> pa,
               XATTR_SUPPORTED |-> TRUE, ACL_SUPPORTED |-> TRUE,
               reported |-> {}, after |-> {}, raised |-> {}]

\* The calls of one family made on an object returned `results`: calls
\* made after the family reported "not supported" are remembered in
\* `after`, and a report in `reported`.
Called(s, family, results) ==
    [s EXCEPT !.after = IF family \in s.reported /\ results # {}
                        THEN @ \cup {family} ELSE @,
              !.reported = IF "ENOTSUP" \in results
                           THEN @ \cup {family} ELSE @]

\* A store to a capability flag; `raised` remembers a store of true over
\* false.
StoreFlag(s, family, v) ==
    LET old == IF family = "xattr" THEN s.XATTR_SUPPORTED ELSE s.ACL_SUPPORTED
        t == [s EXCEPT !.raised = IF v /\ ~old THEN @ \cup {family} ELSE @]
    IN IF family = "xattr" THEN [t EXCEPT !.XATTR_SUPPORTED = v]
       ELSE [t EXCEPT !.ACL_SUPPORTED = v]

\* metadata.rs preserve_xattr, lines 87-133, for a source with one
\* attribute: xattr::list, xattr::get, xattr::set returned l, g, st.
preserve_xattr(s, l, g, st) ==
    CASE l = "ENOTSUP" -> StoreFlag(Called(s, "xattr", {l}), "xattr", FALSE)
      [] l # "ok" -> Called(s, "xattr", {l})
      [] g # "ok" -> Called(s, "xattr", {l, g})
      [] st = "ENOTSUP" ->
           StoreFlag(Called(s, "xattr", {l, g, st}), "xattr", FALSE)
      [] OTHER -> Called(s, "xattr", {l, g, st})

\* metadata.rs preserve_acl, lines 198-233: read_acl and write_acl
\* returned r and w.  The flag is cleared on a message holding "not
\* supported" and, for read_acl, "No data available".
preserve_acl(s, r, w) ==
    CASE r \in {"ENOTSUP", "ENODATA"} ->
           StoreFlag(Called(s, "acl", {r}), "acl", FALSE)
      [] r # "ok" -> Called(s, "acl", {r})
      [] w = "ENOTSUP" -> StoreFlag(Called(s, "acl", {r, w}), "acl", FALSE)
      [] OTHER -> Called(s, "acl", {r, w})

\* dir.rs preserve_xattr_fd, lines 1047-1106: flistxattr returned l; the
\* flag is neither read nor written.
preserve_xattr_fd(s, l) == Called(s, "xattr", {l})

\* dir.rs preserve_acl_fd, lines 1109-1125: acl_get_fd returned r.
preserve_acl_fd(s, r) == Called(s, "acl", {r})

\* The next object of the process and the procedure that handles it, or
\* the end of the process.
CapsNextObject ==
    /\ xa.pc = "next"
    /\ \E p \in Procedures :
         xa' = IF xa.n = MaxObjects THEN [xa EXCEPT !.pc = "done"]
               ELSE [xa EXCEPT !.pc = "xattr", !.n = xa.n + 1, !.proc = p]
    /\ UNCHANGED <<fc, lk, wk, cs, rn, cc, md, sg, up, bk, ds, pl, dr, op, eq, mx, nk>>

\* The extended-attribute step: metadata.rs lines 39-41
\* (preserve_metadata), dir.rs lines 716-718 (copy_and_close), dir.rs
\* lines 122-124 with preserve_xattr_pub, metadata.rs lines 80-85 (the
\* deferred pass).
CapsXattrStep ==
    /\ xa.pc = "xattr"
    /\ \E l \in CallResults, g \in CallResults, st \in CallResults :
         LET t == [xa EXCEPT !.pc = "acl"]
         IN xa' = CASE ~xa.preserve_xattr -> t
                    [] xa.proc = "copy_and_close" -> preserve_xattr_fd(t, l)
                    [] ~xa.XATTR_SUPPORTED -> t
                    [] OTHER -> preserve_xattr(t, l, g, st)
    /\ UNCHANGED <<fc, lk, wk, cs, rn, cc, md, sg, up, bk, ds, pl, dr, op, eq, mx, nk>>

\* The ACL step: metadata.rs lines 62-74, dir.rs lines 743-745, dir.rs
\* lines 125-127 with preserve_acl_pub, metadata.rs lines 191-196.
CapsAclStep ==
    /\ xa.pc = "acl"
    /\ \E r \in CallResults, w \in CallResults :
         LET t == [xa EXCEPT !.pc = "next"]
         IN xa' = CASE ~xa.preserve_acl -> t
                    [] xa.proc = "copy_and_close" -> preserve_acl_fd(t, r)
                    [] ~xa.ACL_SUPPORTED -> t
                    [] OTHER -> preserve_acl(t, r, w)
    /\ UNCHANGED <<fc, lk, wk, cs, rn, cc, md, sg, up, bk, ds, pl, dr, op, eq, mx, nk>>

CapsNext ==
    \/ CapsNextObject
    \/ CapsXattrStep
    \/ CapsAclStep

\* The extended-attribute and ACL steps of one process.
SpecCaps == CapsInit /\ [][CapsNext]_vars

\* C25: the capability flags are never set back to true, a flag is clear
\* only after a call of its family failed, and once a call of a family
\* has reported "not supported" no procedure makes a call of that family
\* again.
C25_NoAttemptAfterNotSupported ==
    xa.pc # "idle" =>
      /\ xa.raised = {}
      /\ xa.after = {}

\* ---------------------------------------------------------------------
\* Claims on the ownership step (SpecMeta).
\* ---------------------------------------------------------------------

\* C26: a process that is not root issues no chown, lchown or fchown,
\* whichever procedure applies the metadata: preserve_metadata,
\* copy_and_close on the fast path, or the deferred directory pass.
C26_NoChownUnprivileged ==
    md.pc # "idle" /\ ~md.is_root =>
      \A i \in DOMAIN md.log : md.log[i] # "ownership"

\* ---------------------------------------------------------------------
\* A directory operand and its destination root: main.rs copy_source
\* (lines 71-107), dir.rs copy_directory (lines 29-45), the head of
\* copy_directory_raw (lines 62-72) and the root entry of
\* copy_directory_walkdir (lines 929-974).  The source is a directory of
\* `nfiles` regular files; the destination path is absent, a directory, or
\* a regular file whose content is "old".
\* ---------------------------------------------------------------------

MaxRootFiles == 2

RootConfigs ==
    [dst : {"absent", "dir", "file"}, walker : {"fast", "slow"},
     recursive : BOOLEAN, nfiles : 0..MaxRootFiles]

RootInit ==
    /\ nk = Idle
    /\ mx = Idle
    /\ eq = Idle
    /\ op = Idle
    /\ fc = Idle /\ lk = Idle /\ wk = Idle /\ cs = Idle /\ rn = Idle
    /\ cc = Idle /\ md = Idle /\ sg = Idle /\ up = Idle /\ bk = Idle
    /\ ds = Idle /\ pl = Idle /\ xa = Idle
    /\ \E c \in RootConfigs :
         dr = [pc |-> "copy_source", cfg |-> c, dst |-> c.dst,
               data |-> IF c.dst = "file" THEN "old" ELSE "none",
               copied |-> 0, result |-> "none", err |-> ""]

RootFail(s, e) == [s EXCEPT !.pc = "done", !.result = "err", !.err = e]

\* main.rs copy_source, lines 77-105: the source is a directory; without
\* -R it is omitted, and a destination beneath it is refused (C5).
CopySourceDir ==
    /\ dr.pc = "copy_source"
    /\ \E st \in BOOLEAN :
         dr' = IF ~st THEN RootFail(dr, "Stat")
               ELSE IF ~dr.cfg.recursive THEN RootFail(dr, "OmitDirectory")
               ELSE [dr EXCEPT !.pc = "copy_directory"]
    /\ UNCHANGED <<fc, lk, wk, cs, rn, cc, md, sg, up, bk, ds, pl, xa, op, eq, mx, nk>>

\* dir.rs copy_directory, lines 29-45: the fast or the slow walker.
CopyDirectory ==
    /\ dr.pc = "copy_directory"
    /\ dr' = [dr EXCEPT !.pc = IF dr.cfg.walker = "fast" THEN "raw" ELSE "walkdir"]
    /\ UNCHANGED <<fc, lk, wk, cs, rn, cc, md, sg, up, bk, ds, pl, xa, op, eq, mx, nk>>

\* dir.rs copy_directory_raw, lines 64-72: create the root when nothing
\* exists at the path, then open both roots with O_DIRECTORY; the open of
\* a destination that is not a directory fails with ENOTDIR.
RawRoot ==
    /\ dr.pc = "raw"
    /\ \E mk \in BOOLEAN, os \in BOOLEAN, od \in BOOLEAN :
         dr' = IF dr.dst = "absent" /\ ~mk THEN RootFail(dr, "CreateDir")
               ELSE IF ~os THEN
                    RootFail([dr EXCEPT !.dst = IF @ = "absent" THEN "dir" ELSE @],
                             "OpenRead")
               ELSE IF dr.dst = "file" \/ ~od THEN
                    RootFail([dr EXCEPT !.dst = IF @ = "absent" THEN "dir" ELSE @],
                             "OpenRead")
               ELSE [dr EXCEPT !.pc = "files", !.dst = "dir"]
    /\ UNCHANGED <<fc, lk, wk, cs, rn, cc, md, sg, up, bk, ds, pl, xa, op, eq, mx, nk>>

\* dir.rs copy_directory_walkdir, lines 929-974, for the root entry: the
\* destination path is dst joined with the empty relative path, "dst/",
\* which exists only when dst is a directory; create_dir_all of it fails
\* over a regular file.
WalkdirRoot ==
    /\ dr.pc = "walkdir"
    /\ \E mk \in BOOLEAN :
         dr' = CASE dr.dst = "dir" -> [dr EXCEPT !.pc = "files"]
                 [] dr.dst = "file" -> RootFail(dr, "CreateDir")
                 [] mk -> [dr EXCEPT !.pc = "files", !.dst = "dir"]
                 [] OTHER -> RootFail(dr, "CreateDir")
    /\ UNCHANGED <<fc, lk, wk, cs, rn, cc, md, sg, up, bk, ds, pl, xa, op, eq, mx, nk>>

\* The entries of the root: copy_dir_recurse (dir.rs lines 277-285) or
\* the walker's loop (lines 1007-1031), one file; then the return.
RootFiles ==
    /\ dr.pc = "files"
    /\ \E ok \in BOOLEAN :
         dr' = IF dr.copied = dr.cfg.nfiles
               THEN [dr EXCEPT !.pc = "done", !.result = "ok"]
               ELSE IF ok THEN [dr EXCEPT !.copied = dr.copied + 1]
               ELSE RootFail(dr, "OpenRead")
    /\ UNCHANGED <<fc, lk, wk, cs, rn, cc, md, sg, up, bk, ds, pl, xa, op, eq, mx, nk>>

RootNext ==
    \/ CopySourceDir
    \/ CopyDirectory
    \/ RawRoot
    \/ WalkdirRoot
    \/ RootFiles

\* One directory operand copied to its destination path.
SpecRoot == RootInit /\ [][RootNext]_vars

\* C27: a recursive copy whose destination exists and is not a directory
\* fails with OverwriteNonDir, and the destination is still the regular
\* file it was, with its content.
C27_OverwriteNonDir ==
    dr.pc = "done" /\ dr.cfg.recursive /\ dr.cfg.dst = "file" =>
      /\ dr.result = "err" /\ dr.err = "OverwriteNonDir"
      /\ dr.dst = "file" /\ dr.data = "old" /\ dr.copied = 0

\* ---------------------------------------------------------------------
\* Claims on several source operands (SpecRun).
\* ---------------------------------------------------------------------

\* C28: with two or more source operands, with or without
\* no_target_directory, no operand is copied and run returns 1 unless the
\* destination is a directory.
C28_MultiSourceNeedsDir ==
    rn.pc # "idle" /\ rn.sources >= 2 /\ rn.dest_is_dir = "no" =>
      /\ rn.attempted = <<>>
      /\ rn.pc = "done" => rn.returned = 1

\* ---------------------------------------------------------------------
\* The options resolved from the command line, and the operand they are
\* applied to (options.rs, main.rs copy_source, copy.rs copy_single).
\* ---------------------------------------------------------------------

\* The attribute names of --preserve and --no-preserve that the lists of
\* the model are made of.
PreserveLists == {{}, {"links"}, {"mode", "xattr"}, {"all"}}

\* The flags of cli.rs that the resolution of the follow policy and of the
\* preserve set reads.  `dereference` is -L, `dereference_args` -H,
\* `no_dereference` -P, `no_deref_preserve_links` -d, `preserve_default` -p.
CliFlags ==
    [archive : BOOLEAN, recursive : BOOLEAN, dereference : BOOLEAN,
     dereference_args : BOOLEAN, no_dereference : BOOLEAN,
     no_deref_preserve_links : BOOLEAN, preserve_default : BOOLEAN,
     preserve : PreserveLists, no_preserve : PreserveLists]

\* What the source operand is: a regular file, a directory, a symbolic
\* link to one of them, or a symbolic link to nothing.
OperandKinds == {"file", "dir", "link_file", "link_dir", "dangling"}

\* options.rs, lines 73-84: the follow policy.
resolve_dereference(cli) ==
    IF cli.dereference THEN "Always"
    ELSE IF cli.no_dereference \/ cli.no_deref_preserve_links THEN "Never"
    ELSE IF cli.dereference_args THEN "CommandLine"
    ELSE IF cli.recursive THEN "Never"
    ELSE "CommandLine"

\* options.rs, lines 87-143: one preserve flag.  `base` is its value from
\* -a, -p and -d; a name of --preserve (or "all") sets it, then a name of
\* --no-preserve (or "all") clears it.
resolve_preserve(cli, attr, base) ==
    LET set == base \/ attr \in cli.preserve \/ "all" \in cli.preserve
    IN  set /\ ~(attr \in cli.no_preserve \/ "all" \in cli.no_preserve)

\* options.rs, lines 70-200: the fields of CopyOptions that -a bears on.
resolve_options(cli) ==
    [recursive           |-> cli.recursive \/ cli.archive,
     dereference         |-> resolve_dereference(cli),
     preserve_mode       |-> resolve_preserve(cli, "mode",
                               cli.archive \/ cli.preserve_default),
     preserve_ownership  |-> resolve_preserve(cli, "ownership",
                               cli.archive \/ cli.preserve_default),
     preserve_timestamps |-> resolve_preserve(cli, "timestamps",
                               cli.archive \/ cli.preserve_default),
     preserve_links      |-> resolve_preserve(cli, "links",
                               cli.archive \/ cli.no_deref_preserve_links),
     preserve_xattr      |-> resolve_preserve(cli, "xattr", cli.archive),
     preserve_acl        |-> resolve_preserve(cli, "acl", FALSE)]

\* util::should_follow_symlink, util.rs lines 88-98.
should_follow_symlink(deref, is_command_line_arg) ==
    CASE deref = "Always" -> TRUE
      [] deref = "Never" -> FALSE
      [] OTHER -> is_command_line_arg

\* util::get_metadata, util.rs lines 79-85: stat when following, lstat
\* otherwise.
get_metadata(kind, follow) ==
    CASE kind \in {"file", "dir"} -> kind
      [] ~follow -> "symlink"
      [] kind = "link_file" -> "file"
      [] kind = "link_dir" -> "dir"
      [] OTHER -> "ENOENT"

OptionsInit ==
    /\ nk = Idle
    /\ mx = Idle
    /\ eq = Idle
    /\ fc = Idle /\ lk = Idle /\ wk = Idle /\ cs = Idle
    /\ rn = Idle /\ cc = Idle /\ md = Idle /\ sg = Idle
    /\ up = Idle /\ bk = Idle /\ ds = Idle /\ pl = Idle
    /\ xa = Idle /\ dr = Idle
    /\ \E c \in CliFlags, k \in OperandKinds :
         op = [pc |-> "parse", cli |-> c, source |-> k,
               opts |-> [recursive |-> FALSE], follow |-> FALSE,
               meta |-> "none", made |-> "none", result |-> "none"]

\* main.rs, line 24: the options are resolved once, before any operand.
FromCli ==
    /\ op.pc = "parse"
    /\ op' = [op EXCEPT !.pc = "source", !.opts = resolve_options(op.cli)]
    /\ UNCHANGED <<fc, lk, wk, cs, rn, cc, md, sg, up, bk, ds, pl, xa, dr, eq, mx, nk>>

\* copy_source, main.rs lines 77-90: the operand is examined, through the
\* link or not, and a directory is refused without recursive.
CopySourceStat ==
    /\ op.pc = "source"
    /\ LET follow == should_follow_symlink(op.opts.dereference, TRUE)
           meta == get_metadata(op.source, follow)
           s == [op EXCEPT !.follow = follow, !.meta = meta]
       IN  op' = CASE meta = "ENOENT" ->
                        [s EXCEPT !.pc = "done", !.result = "Stat"]
                   [] meta = "dir" /\ ~op.opts.recursive ->
                        [s EXCEPT !.pc = "done", !.result = "OmitDirectory"]
                   [] OTHER -> [s EXCEPT !.pc = "copy"]
    /\ UNCHANGED <<fc, lk, wk, cs, rn, cc, md, sg, up, bk, ds, pl, xa, dr, eq, mx, nk>>

\* copy_source, main.rs lines 94-128, and copy_single, copy.rs lines 40 and
\* 115: a directory is copied as a tree; anything else goes to copy_single
\* with is_cli_arg = true, which makes a symbolic link when the operand is
\* one and is not followed, and a regular file otherwise.
CopySourceCopy ==
    /\ op.pc = "copy"
    /\ LET made == CASE op.meta = "dir" -> "dir"
                     [] op.meta = "symlink"
                        /\ ~should_follow_symlink(op.opts.dereference, TRUE)
                          -> "symlink"
                     [] OTHER -> "file"
       IN  op' = [op EXCEPT !.pc = "done", !.made = made, !.result = "ok"]
    /\ UNCHANGED <<fc, lk, wk, cs, rn, cc, md, sg, up, bk, ds, pl, xa, dr, eq, mx, nk>>

OptionsNext ==
    \/ FromCli
    \/ CopySourceStat
    \/ CopySourceCopy

\* One operand copied under the options of one command line.
SpecOptions == OptionsInit /\ [][OptionsNext]_vars

\* The source operand is a symbolic link.
IsLink(k) == k \in {"link_file", "link_dir", "dangling"}

\* C29: with archive, and neither -L nor -H, the resolved options have
\* recursive, preserve_mode, preserve_ownership, preserve_timestamps,
\* preserve_links and preserve_xattr set and dereference = Never, and a
\* symbolic link given as the operand is copied as a symbolic link.
C29_ArchiveOptions ==
    /\ op.pc \in {"source", "copy", "done"}
    /\ op.cli.archive /\ ~op.cli.dereference /\ ~op.cli.dereference_args
    =>
    /\ op.opts.recursive
    /\ op.opts.preserve_mode /\ op.opts.preserve_ownership
    /\ op.opts.preserve_timestamps /\ op.opts.preserve_links
    /\ op.opts.preserve_xattr
    /\ op.opts.dereference = "Never"
    /\ op.pc = "done" /\ IsLink(op.source) => op.made = "symlink"

\* ---------------------------------------------------------------------
\* Claims on the tag of the copy engine (SpecFile).
\* ---------------------------------------------------------------------

\* The names of a sequence of steps joined with '+'.
RECURSIVE JoinPlus(_)
JoinPlus(names) ==
    IF names = <<>> THEN ""
    ELSE IF Len(names) = 1 THEN names[1]
    ELSE names[1] \o "+" \o JoinPlus(Tail(names))

\* C30: the tag copy_file_data returns is the '+'-joined names of the
\* steps that transferred bytes, in the order they did: one name when one
\* step moved every byte, several when later steps completed the copy.
C30_TagNamesSteps ==
    fc.pc # "idle" /\ fc.engine = "ok" => fc.tag = JoinPlus(fc.moved)

\* ---------------------------------------------------------------------
\* The two walkers side by side on one source directory (dir.rs
\* copy_dir_recurse against copy_directory_walkdir with copy_single).
\* ---------------------------------------------------------------------

MaxListed == 2

\* What readdir reports for an entry: a regular file, a symbolic link, a
\* FIFO, a device node, a subdirectory.
ListedKinds == {"reg", "lnk", "fifo", "dev", "dir"}

\* The source directory in readdir order, the preserve options (neither
\* takes the copy off the fast path), and whether the process is root.
EquivConfigs ==
    [entries : UNION {[1..n -> ListedKinds] : n \in 1..MaxListed},
     preserve_mode : BOOLEAN, preserve_timestamps : BOOLEAN,
     is_root : BOOLEAN]

\* The attributes of a destination object set from its source's.
Preserved(c, is_symlink) ==
    (IF c.preserve_mode /\ ~is_symlink THEN {"mode"} ELSE {})
      \cup (IF c.preserve_timestamps THEN {"timestamps"} ELSE {})

NoObject == [type |-> "none", attrs |-> {}]

\* A walker before its first entry: `todo` the entries in the order it
\* visits them, `dst` the destination directory by entry.
Walker(c, order) ==
    [todo |-> order, dst |-> [i \in DOMAIN c.entries |-> NoObject],
     dir_meta |-> <<>>, result |-> "none"]

\* copy_dir_recurse, lines 277-382: the entries by phase, regular files,
\* then special files, then symbolic links, then subdirectories, each in
\* readdir order.
PhaseOrder(c) ==
    LET Of(kinds) == SelectSeq([i \in DOMAIN c.entries |-> i],
                               LAMBDA i : c.entries[i] \in kinds)
    IN Of({"reg"}) \o Of({"fifo", "dev"}) \o Of({"lnk"}) \o Of({"dir"})

\* copy_directory_walkdir, line 927: the entries as the walk yields them.
WalkOrder(c) == [i \in DOMAIN c.entries |-> i]

EquivInit ==
    /\ nk = Idle
    /\ mx = Idle
    /\ fc = Idle /\ lk = Idle /\ wk = Idle /\ cs = Idle
    /\ rn = Idle /\ cc = Idle /\ md = Idle /\ sg = Idle
    /\ up = Idle /\ bk = Idle /\ ds = Idle /\ pl = Idle
    /\ xa = Idle /\ dr = Idle /\ op = Idle
    /\ \E c \in EquivConfigs :
         eq = [pc |-> "walk", cfg |-> c,
               fast |-> Walker(c, PhaseOrder(c)),
               slow |-> Walker(c, WalkOrder(c))]

\* One entry of the fast walker.  A regular file is copied and
\* copy_and_close sets its attributes (dir.rs 713-746); a FIFO or a device
\* node is made with mkfifoat or mknodat and nothing else is done to it,
\* and EPERM from making it is passed over (lines 297-357); a symbolic
\* link is made and preserve_metadata called for it (lines 756-820); a
\* subdirectory was made by mkdirat and its attributes wait for the end
\* (lines 208-249).
fast_entry(c, w, i) ==
    LET k == c.entries[i]
        rest == [w EXCEPT !.todo = Tail(@)]
    IN CASE k = "reg" ->
              [rest EXCEPT !.dst[i] = [type |-> "reg",
                                       attrs |-> Preserved(c, FALSE)]]
         [] k = "fifo" ->
              [rest EXCEPT !.dst[i] = [type |-> "fifo", attrs |-> {}]]
         [] k = "dev" ->
              IF c.is_root
              THEN [rest EXCEPT !.dst[i] = [type |-> "dev", attrs |-> {}]]
              ELSE rest
         [] k = "lnk" ->
              [rest EXCEPT !.dst[i] =
                 [type |-> "lnk",
                  attrs |-> IF c.preserve_timestamps
                            THEN Preserved(c, TRUE) ELSE {}]]
         [] OTHER ->
              [rest EXCEPT !.dst[i] = [type |-> "dir", attrs |-> {}],
                           !.dir_meta = Append(@, i)]

\* One entry of the slow walker.  Everything but a directory goes to
\* copy_single (dir.rs 1031), which ends each kind with preserve_metadata
\* (copy.rs 238-296) and returns the error of mknod; the ? ends the walk.
slow_entry(c, w, i) ==
    LET k == c.entries[i]
        rest == [w EXCEPT !.todo = Tail(@)]
    IN CASE k = "dir" ->
              [rest EXCEPT !.dst[i] = [type |-> "dir", attrs |-> {}],
                           !.dir_meta = Append(@, i)]
         [] k = "dev" /\ ~c.is_root ->
              [w EXCEPT !.todo = <<>>, !.dir_meta = <<>>, !.result = "err"]
         [] OTHER ->
              [rest EXCEPT !.dst[i] = [type |-> k,
                                       attrs |-> Preserved(c, k = "lnk")]]

\* The deferred pass over the directories, dir.rs 118-128 (fast) and
\* 1037-1039 (slow): ownership, mode and timestamps of each.
dir_pass(c, w) ==
    [w EXCEPT !.dst = [i \in DOMAIN w.dst |->
                         IF \E j \in DOMAIN w.dir_meta : w.dir_meta[j] = i
                         THEN [w.dst[i] EXCEPT !.attrs = Preserved(c, FALSE)]
                         ELSE w.dst[i]],
              !.dir_meta = <<>>, !.result = "ok"]

FastWalkStep ==
    /\ eq.pc = "walk"
    /\ eq.fast.todo # <<>>
    /\ eq' = [eq EXCEPT !.fast = fast_entry(eq.cfg, eq.fast, Head(eq.fast.todo))]
    /\ UNCHANGED <<fc, lk, wk, cs, rn, cc, md, sg, up, bk, ds, pl, xa, dr, op, mx, nk>>

FastWalkEnd ==
    /\ eq.pc = "walk"
    /\ eq.fast.todo = <<>> /\ eq.fast.result = "none"
    /\ eq' = [eq EXCEPT !.fast = dir_pass(eq.cfg, eq.fast)]
    /\ UNCHANGED <<fc, lk, wk, cs, rn, cc, md, sg, up, bk, ds, pl, xa, dr, op, mx, nk>>

SlowWalkStep ==
    /\ eq.pc = "walk"
    /\ eq.slow.todo # <<>>
    /\ eq' = [eq EXCEPT !.slow = slow_entry(eq.cfg, eq.slow, Head(eq.slow.todo))]
    /\ UNCHANGED <<fc, lk, wk, cs, rn, cc, md, sg, up, bk, ds, pl, xa, dr, op, mx, nk>>

SlowWalkFinish ==
    /\ eq.pc = "walk"
    /\ eq.slow.todo = <<>> /\ eq.slow.result = "none"
    /\ eq' = [eq EXCEPT !.slow = dir_pass(eq.cfg, eq.slow)]
    /\ UNCHANGED <<fc, lk, wk, cs, rn, cc, md, sg, up, bk, ds, pl, xa, dr, op, mx, nk>>

\* Both copies have returned.
EquivCompare ==
    /\ eq.pc = "walk"
    /\ eq.fast.result # "none" /\ eq.slow.result # "none"
    /\ eq' = [eq EXCEPT !.pc = "done"]
    /\ UNCHANGED <<fc, lk, wk, cs, rn, cc, md, sg, up, bk, ds, pl, xa, dr, op, mx, nk>>

EquivNext ==
    \/ FastWalkStep
    \/ FastWalkEnd
    \/ SlowWalkStep
    \/ SlowWalkFinish
    \/ EquivCompare

\* One source directory copied by each walker into a fresh destination.
SpecEquiv == EquivInit /\ [][EquivNext]_vars

\* C31: copied into a fresh destination under the same options, the fast
\* walker and the slow walker leave the same destination tree, types and
\* preserved attributes, and the same success-or-error result.
C31_WalkersAgree ==
    eq.pc = "done" =>
      /\ eq.fast.dst = eq.slow.dst
      /\ eq.fast.result = eq.slow.result

\* ---------------------------------------------------------------------
\* The three mutexes of copy_files_parallel (dir.rs 504-579) and the
\* scope of each guard in the workers (copy_file_openat_mt, 585-685).
\* ---------------------------------------------------------------------

MaxLockWorkers == 2

MaxChunk == 1

LockWorkers == 1..MaxLockWorkers

\* hlmap (the ledger), deferred_links and first_err.
Mutexes == {"hlmap", "deferred_links", "first_err"}

\* A file is the inode key it is tracked under, 0 when it is not tracked
\* (no ledger, or st_nlink = 1).  Each worker's chunk is a sequence of them.
LockConfigs ==
    [LockWorkers -> UNION {[1..n -> {0, 1}] : n \in 1..MaxChunk}]

LocksInit ==
    /\ nk = Idle
    /\ fc = Idle /\ lk = Idle /\ wk = Idle /\ cs = Idle
    /\ rn = Idle /\ cc = Idle /\ md = Idle /\ sg = Idle
    /\ up = Idle /\ bk = Idle /\ ds = Idle /\ pl = Idle
    /\ xa = Idle /\ dr = Idle /\ op = Idle /\ eq = Idle
    /\ \E c \in LockConfigs :
         mx = [pc |-> "scope",
               w |-> [x \in LockWorkers |-> [pc |-> "top", chunk |-> c[x]]],
               holder |-> [m \in Mutexes |-> 0],
               hlmap |-> {}, deferred |-> 0, first_err |-> 0,
               result |-> "none"]

\* Mutex::lock returns: worker x has the guard of m.
Lock(s, m, x) == [s EXCEPT !.holder[m] = x]

\* The guard of m is dropped, at the end of the statement that made it or
\* by drop(guard).
Unlock(s, m) == [s EXCEPT !.holder[m] = 0]

\* The worker's closure returns.
Returns(s, x) == [s EXCEPT !.w[x].pc = "returned"]

\* The worker goes on to the next name of its chunk.
NextName(s, x) == [s EXCEPT !.w[x].pc = "top", !.w[x].chunk = Tail(@)]

\* dir.rs 534-535, err_ref.lock(): the guard is taken at the top of the
\* loop; an exhausted chunk ends the closure.
ErrLock(x) ==
    /\ mx.pc = "scope" /\ mx.w[x].pc = "top"
    /\ \/ /\ mx.w[x].chunk = <<>>
          /\ mx' = Returns(mx, x)
       \/ /\ mx.w[x].chunk # <<>>
          /\ mx.holder["first_err"] = 0
          /\ mx' = [Lock(mx, "first_err", x) EXCEPT !.w[x].pc = "err_held"]
    /\ UNCHANGED <<fc, lk, wk, cs, rn, cc, md, sg, up, bk, ds, pl, xa, dr, op, eq, nk>>

\* dir.rs 535-537: is_some() is read under the guard, which is a temporary
\* of the condition and is dropped before the return or the copy.
ErrChecked(s, x) ==
    IF s.first_err # 0 THEN Returns(Unlock(s, "first_err"), x)
    ELSE [Unlock(s, "first_err") EXCEPT !.w[x].pc = "open_src"]

ErrCheck(x) ==
    /\ mx.pc = "scope" /\ mx.w[x].pc = "err_held"
    /\ mx' = ErrChecked(mx, x)
    /\ UNCHANGED <<fc, lk, wk, cs, rn, cc, md, sg, up, bk, ds, pl, xa, dr, op, eq, nk>>

\* copy_file_openat_mt, lines 595-620: openat and fstat of the source.
LockOpenSrc(x) ==
    /\ mx.pc = "scope" /\ mx.w[x].pc = "open_src"
    /\ \E ok \in BOOLEAN :
         mx' = [mx EXCEPT !.w[x].pc =
                  IF ~ok THEN "failed"
                  ELSE IF Head(mx.w[x].chunk) # 0 THEN "ledger"
                  ELSE "open_dst"]
    /\ UNCHANGED <<fc, lk, wk, cs, rn, cc, md, sg, up, bk, ds, pl, xa, dr, op, eq, nk>>

\* copy_file_openat_mt, line 631: hlm.lock().
LedgerLock(x) ==
    /\ mx.pc = "scope" /\ mx.w[x].pc = "ledger"
    /\ mx.holder["hlmap"] = 0
    /\ mx' = [Lock(mx, "hlmap", x) EXCEPT !.w[x].pc = "ledger_held"]
    /\ UNCHANGED <<fc, lk, wk, cs, rn, cc, md, sg, up, bk, ds, pl, xa, dr, op, eq, nk>>

\* LedgerMiss keeping the guard over the copy.
LedgerMiss_lock_across_copy(s, x, key) ==
    [s EXCEPT !.hlmap = @ \cup {key}, !.w[x].pc = "open_dst"]

\* copy_file_openat_mt, lines 640-642: insert, then drop(guard).
LedgerMiss(s, x, key) ==
    [Unlock(s, "hlmap") EXCEPT !.hlmap = @ \cup {key}, !.w[x].pc = "open_dst"]

\* copy_file_openat_mt, lines 632-642: the lookup under the guard; on a
\* hit the guard is dropped before anything else is done.
LedgerGuarded(x) ==
    /\ mx.pc = "scope" /\ mx.w[x].pc = "ledger_held"
    /\ LET key == Head(mx.w[x].chunk)
       IN mx' = IF key \in mx.hlmap
                THEN [Unlock(mx, "hlmap") EXCEPT !.w[x].pc = "defer"]
                ELSE LedgerMiss(mx, x, key)
    /\ UNCHANGED <<fc, lk, wk, cs, rn, cc, md, sg, up, bk, ds, pl, xa, dr, op, eq, nk>>

\* copy_file_openat_mt, lines 636-637: close of the source, then
\* deferred_links.lock().
DeferLock(x) ==
    /\ mx.pc = "scope" /\ mx.w[x].pc = "defer"
    /\ mx.holder["deferred_links"] = 0
    /\ mx' = [Lock(mx, "deferred_links", x) EXCEPT !.w[x].pc = "defer_held"]
    /\ UNCHANGED <<fc, lk, wk, cs, rn, cc, md, sg, up, bk, ds, pl, xa, dr, op, eq, nk>>

\* copy_file_openat_mt, lines 637-638: the push; the guard is a temporary
\* of the statement.
DeferPush(x) ==
    /\ mx.pc = "scope" /\ mx.w[x].pc = "defer_held"
    /\ mx' = [NextName(Unlock(mx, "deferred_links"), x)
                EXCEPT !.deferred = mx.deferred + 1]
    /\ UNCHANGED <<fc, lk, wk, cs, rn, cc, md, sg, up, bk, ds, pl, xa, dr, op, eq, nk>>

\* copy_file_openat_mt, lines 645-682: openat of the destination, with
\* the retry under force.
LockOpenDst(x) ==
    /\ mx.pc = "scope" /\ mx.w[x].pc = "open_dst"
    /\ \E ok \in BOOLEAN :
         mx' = [mx EXCEPT !.w[x].pc = IF ok THEN "copy" ELSE "failed"]
    /\ UNCHANGED <<fc, lk, wk, cs, rn, cc, md, sg, up, bk, ds, pl, xa, dr, op, eq, nk>>

\* copy_and_close (lines 689-754): data, attributes, close; always Ok.
LockCopyAndClose(x) ==
    /\ mx.pc = "scope" /\ mx.w[x].pc = "copy"
    /\ mx' = NextName(mx, x)
    /\ UNCHANGED <<fc, lk, wk, cs, rn, cc, md, sg, up, bk, ds, pl, xa, dr, op, eq, nk>>

\* dir.rs 548: err_ref.lock() after a failed copy.
StoreLock(x) ==
    /\ mx.pc = "scope" /\ mx.w[x].pc = "failed"
    /\ mx.holder["first_err"] = 0
    /\ mx' = [Lock(mx, "first_err", x) EXCEPT !.w[x].pc = "store_held"]
    /\ UNCHANGED <<fc, lk, wk, cs, rn, cc, md, sg, up, bk, ds, pl, xa, dr, op, eq, nk>>

\* Stored returning with the guard still held.
Stored_keeps_guard(s, x) ==
    [Returns(s, x) EXCEPT !.first_err = IF s.first_err = 0 THEN x ELSE @]

\* dir.rs 548-552: the check and the store under the guard g, which is
\* dropped by the return.
Stored(s, x) ==
    [Returns(Unlock(s, "first_err"), x)
       EXCEPT !.first_err = IF s.first_err = 0 THEN x ELSE @]

StoreGuarded(x) ==
    /\ mx.pc = "scope" /\ mx.w[x].pc = "store_held"
    /\ mx' = Stored(mx, x)
    /\ UNCHANGED <<fc, lk, wk, cs, rn, cc, md, sg, up, bk, ds, pl, xa, dr, op, eq, nk>>

\* dir.rs 556-578: the scope ends when every closure has returned; the
\* mutexes are consumed with into_inner, the error is returned or the
\* deferred links are made.
ScopeJoin ==
    /\ mx.pc = "scope"
    /\ \A x \in LockWorkers : mx.w[x].pc = "returned"
    /\ mx' = [mx EXCEPT !.pc = "done",
                        !.result = IF mx.first_err # 0 THEN "err" ELSE "ok"]
    /\ UNCHANGED <<fc, lk, wk, cs, rn, cc, md, sg, up, bk, ds, pl, xa, dr, op, eq, nk>>

LockStep(x) ==
    \/ ErrLock(x)
    \/ ErrCheck(x)
    \/ LockOpenSrc(x)
    \/ LedgerLock(x)
    \/ LedgerGuarded(x)
    \/ DeferLock(x)
    \/ DeferPush(x)
    \/ LockOpenDst(x)
    \/ LockCopyAndClose(x)
    \/ StoreLock(x)
    \/ StoreGuarded(x)

LocksNext ==
    \/ \E x \in LockWorkers : LockStep(x)
    \/ ScopeJoin

\* The workers of one pool and its join.
SpecLocks == LocksInit /\ [][LocksNext]_vars

\* The same under a scheduler that does not stop while a thread can run:
\* some enabled step of a worker or of the join is eventually taken.
FairSpecLocks == SpecLocks /\ WF_vars(LocksNext)

\* The mutexes worker x holds.
HeldBy(s, x) == {m \in Mutexes : s.holder[m] = x}

\* Where a worker stands while it has the guard of m.
GuardScope(m) ==
    CASE m = "hlmap" -> {"ledger_held"}
      [] m = "deferred_links" -> {"defer_held"}
      [] m = "first_err" -> {"err_held", "store_held"}

\* C32: a worker has the guard of a mutex only for the lookup-and-insert,
\* the push or the check-and-store, never while it opens a file, copies or
\* applies attributes, and never two guards at once.
C32_GuardsAreShort ==
    mx.pc # "idle" =>
      \A x \in LockWorkers :
        /\ Cardinality(HeldBy(mx, x)) <= 1
        /\ \A m \in HeldBy(mx, x) : mx.w[x].pc \in GuardScope(m)
        /\ mx.w[x].pc \in {"open_src", "open_dst", "copy"} => HeldBy(mx, x) = {}

\* C32's case: one worker copies the first name of an inode, past the
\* ledger, while another has the ledger's guard for a later name of it.
C32_Witness ==
    /\ mx.pc = "scope"
    /\ \E x, y \in LockWorkers :
         /\ mx.w[x].pc = "copy" /\ Head(mx.w[x].chunk) = 1
         /\ mx.w[y].pc = "ledger_held" /\ mx.holder["hlmap"] = y

\* C33: under fair scheduling every worker returns, the scope join
\* completes and copy_files_parallel returns, with or without an error
\* recorded.
C33_PoolTerminates ==
    mx.pc = "scope" ~> mx.pc = "done"

\* C33's case: the pool has returned the error one worker stored, after
\* another worker went through the ledger and the deferred-link list.
C33_Witness ==
    /\ mx.pc = "done" /\ mx.result = "err"
    /\ mx.deferred > 0

\* ---------------------------------------------------------------------
\* The pool against the sequential loop (SpecLinks).
\* ---------------------------------------------------------------------

\* The sequential loop of copy_dir_recurse (lines 280-283) over the files
\* from f on, every call of copy_file_openat succeeding: a tracked file
\* whose key is in the ledger becomes a link to the registered destination
\* (lines 437-448), any other file is registered if tracked and gets an
\* inode of its own (lines 450-498).  The result maps each destination
\* name to the name whose inode it has.
RECURSIVE SeqLoopFrom(_, _, _, _)
SeqLoopFrom(c, f, ledger, names) ==
    IF f > MaxFiles THEN names
    ELSE LET key == c.ino[f]
         IN IF Tracked(c, f) /\ ledger[key] # 0
            THEN SeqLoopFrom(c, f + 1, ledger,
                             [names EXCEPT ![f] = names[ledger[key]]])
            ELSE SeqLoopFrom(c, f + 1,
                             IF Tracked(c, f)
                             THEN [ledger EXCEPT ![key] = f] ELSE ledger,
                             [names EXCEPT ![f] = f])

SeqLoop(c) ==
    SeqLoopFrom(c, 1, [i \in 1..MaxInodes |-> 0], [f \in 1..MaxFiles |-> -1])

\* The walk used the pool for one of its directories.
PoolUsed(c) == \E d \in Dirs : UsesPool(c, d)

\* C34: into a fresh destination, whatever the interleaving of the
\* workers, a successful walk that used the pool ends with every name
\* present, each inode holding one copy of the data of its own source
\* inode, and the names sharing inodes exactly as they do after the
\* sequential loop over the same files.
C34_PoolEqualsSequential ==
    /\ lk.pc = "done" /\ lk.result = "ok"
    /\ lk.cfg.pre = "fresh" /\ PoolUsed(lk.cfg)
    =>
    LET seq == SeqLoop(lk.cfg)
    IN \A f \in 1..MaxFiles :
         /\ lk.dname[f] # -1
         /\ \E g \in 1..MaxFiles :
              /\ lk.into[g] = lk.dname[f] /\ lk.copies[g] = 1
              /\ lk.cfg.ino[g] = lk.cfg.ino[f]
         /\ \A h \in 1..MaxFiles :
              (lk.dname[f] = lk.dname[h]) <=> (seq[f] = seq[h])

\* C34's case: two names of one inode in different chunks of the pool,
\* where the later name's worker registered first, so that the copy was
\* made under the later name and the earlier name became the link.
C34_Witness ==
    /\ lk.pc = "done" /\ lk.result = "ok"
    /\ lk.cfg.pre = "fresh" /\ PoolUsed(lk.cfg)
    /\ \E f \in 1..MaxFiles, g \in 1..MaxFiles :
         /\ f < g /\ lk.cfg.wOf[f] # lk.cfg.wOf[g]
         /\ lk.dname[f] = g /\ lk.dname[g] = g
         /\ lk.linked[f] /\ lk.copies[g] = 1

\* ---------------------------------------------------------------------
\* Claims on the ACL step and the permission bits (SpecMeta).
\* ---------------------------------------------------------------------

\* The write of the ACL succeeded.
AclWritten(s) == s.before_acl # "none"

\* C35: with preserve_acl and without preserve_mode, once the attributes
\* of an object that is not a symbolic link have been propagated, by
\* preserve_metadata, by copy_and_close or by the deferred directory pass,
\* its permission bits are the ones it had just before the ACL was written.
C35_ModeKeptAcrossAcl ==
    /\ md.pc = "done" /\ md.result = "ok"
    /\ "acl" \in md.preserve /\ "mode" \notin md.preserve
    /\ ~md.is_symlink /\ AclWritten(md)
    => md.bits = md.before_acl

\* The failures the propagation may pass over: "not supported" for the
\* extended attributes or the ACL, EPERM for the ownership.
MayBeSwallowed(a, e) ==
    \/ a \in {"xattr", "acl"} /\ e = "ENOTSUP"
    \/ a = "ownership" /\ e = "EPERM"

\* C36: whichever procedure propagates the attributes of an object, it
\* returns Ok only if every write that failed was "not supported" for the
\* extended attributes or the ACL, or EPERM for the ownership.
C36_OnlyClassifiedFailuresSwallowed ==
    md.pc = "done" /\ md.result = "ok" =>
      \A p \in md.failed : MayBeSwallowed(p[1], p[2])

\* The entry is <name>.~N~ for a positive integer N.
IsNumberedBackupOf(name, entry_str) ==
    \E N \in 1..(4 * MaxCopies) :
      entry_str = name \o <<".", "~">> \o Decimal(N) \o <<"~">>

\* C37: with backup = Existing the backup is numbered exactly when the
\* destination's directory holds a file named <destination-name>.~N~ for
\* a positive integer N, and it is the destination name followed by the
\* suffix otherwise; the numbered backup of another file whose name
\* starts with the destination's name does not count.
C37_ExistingFollowsOwnBackups ==
    [][ (/\ bk.pc = "backup"
         /\ bk.mode = "Existing"
         /\ Len(bk'.made) = Len(bk.made) + 1)
        => LET n == bk'.made[Len(bk'.made)]
               own == \E e \in read_dir(bk.dst, bk.slot, bk.stray) :
                        IsNumberedBackupOf(DestName, e)
           IN (n >= 1) <=> own ]_vars

\* C38: with a backup mode other than None and remove_destination both
\* set and an existing regular destination that the backup step renamed
\* away, copy_single does not return the removal error: it goes on to
\* the copy, which succeeds when the source can be opened and the
\* destination created.
C38_BackupThenRemoveSucceeds ==
    (/\ sg.pc = "done"
     /\ sg.opts.backup # "None"
     /\ sg.opts.remove_destination
     /\ sg.file.dst = "file"
     /\ sg.backed_up)
    => sg.result \in {"ok", "OpenRead", "CreateFile"}

\* ---------------------------------------------------------------------
\* copy_directory_walkdir over existing destination files under
\* no_clobber, update = None or interactive (dir.rs, copy.rs).
\* ---------------------------------------------------------------------

\* Files of the source directory, in the order of the walk.
MaxNames == 3

\* Inode numbers of the source files.
Inodes == 1..2

\* `guard`: the option that keeps existing files.  `ino`: the inode of
\* each source file; the link count of a file is the number of names of
\* its inode.  `existed`: the destination names present before the run.
ClobberConfigs ==
    [guard : {"no_clobber", "update_none", "interactive"},
     preserve_links : BOOLEAN,
     ino : [1..MaxNames -> Inodes],
     existed : SUBSET (1..MaxNames)]

nlink(c, f) == Cardinality({g \in 1..MaxNames : c.ino[g] = c.ino[f]})

\* dst[f]: "absent", "old" (the file that was there before the run),
\* "new" (a copy made by this run) or <<"link", g>> (a link to the
\* destination g).  ops: the removals, links and truncations made on
\* names that existed before the run.
ClobberInit ==
    /\ fc = Idle /\ lk = Idle /\ wk = Idle /\ cs = Idle /\ rn = Idle
    /\ cc = Idle /\ md = Idle /\ sg = Idle /\ up = Idle /\ bk = Idle
    /\ ds = Idle /\ pl = Idle /\ xa = Idle /\ dr = Idle /\ op = Idle
    /\ eq = Idle /\ mx = Idle
    /\ \E c \in ClobberConfigs :
         nk = [pc |-> "walk", cfg |-> c, i |-> 1,
               hlmap |-> [k \in Inodes |-> 0],
               dst |-> [f \in 1..MaxNames |->
                          IF f \in c.existed THEN "old" ELSE "absent"],
               answer |-> [f \in 1..MaxNames |-> "none"],
               ops |-> {}, result |-> "none"]

ClobberFail(s, e) == [s EXCEPT !.pc = "done", !.result = e]

\* dir.rs lines 1015-1028: the inode is in the ledger.  The destination
\* is removed when it exists (the result of remove_file is dropped),
\* then linked to the first destination; copy_single is not called.
ClobberLedgerHit(s, f, removed, linked) ==
    LET exists == s.dst[f] # "absent"
        gone == [s EXCEPT
                   !.dst[f] = IF exists /\ removed THEN "absent" ELSE @,
                   !.ops = IF exists /\ removed
                           THEN @ \cup {<<"unlink", f>>} ELSE @]
    IN IF (exists /\ ~removed) \/ ~linked
       THEN ClobberFail(gone, "HardLink")
       ELSE [gone EXCEPT
               !.i = f + 1,
               !.dst[f] = <<"link", s.hlmap[s.cfg.ino[f]]>>,
               !.ops = IF exists THEN @ \cup {<<"link", f>>} ELSE @]

\* copy.rs lines 68-96 and 113-131: copy_single returns Ok without a
\* write when the destination exists and update is None, no_clobber is
\* set, or the answer to the interactive question is not yes; else the
\* destination is created or truncated and written.
ClobberCopySingle(s, f, yes, ok) ==
    LET exists == s.dst[f] # "absent"
        asked == [s EXCEPT !.answer[f] = IF yes THEN "yes" ELSE "no"]
    IN IF exists /\ s.cfg.guard \in {"update_none", "no_clobber"}
       THEN [s EXCEPT !.i = f + 1]
       ELSE IF exists /\ ~yes THEN [asked EXCEPT !.i = f + 1]
       ELSE LET t == IF exists THEN asked ELSE s
            IN IF ~ok THEN ClobberFail(t, "CreateFile")
               ELSE [t EXCEPT !.i = f + 1,
                              !.dst[f] = "new",
                              !.ops = IF exists
                                      THEN @ \cup {<<"truncate", f>>}
                                      ELSE @]

\* dir.rs lines 930-1033: one file of the walk.
ClobberEntry ==
    /\ nk.pc = "walk" /\ nk.i <= MaxNames
    /\ LET f == nk.i
           key == nk.cfg.ino[f]
           tracked == nk.cfg.preserve_links /\ nlink(nk.cfg, f) > 1
       IN \E removed \in BOOLEAN, linked \in BOOLEAN, yes \in BOOLEAN,
             ok \in BOOLEAN :
            nk' = IF tracked /\ nk.hlmap[key] # 0
                  THEN ClobberLedgerHit(nk, f, removed, linked)
                  ELSE ClobberCopySingle(
                         [nk EXCEPT !.hlmap[key] = IF tracked THEN f ELSE @],
                         f, yes, ok)
    /\ UNCHANGED <<fc, lk, wk, cs, rn, cc, md, sg, up, bk, ds, pl, xa, dr, op, eq, mx>>

\* dir.rs line 1041: the walk is over.
ClobberEnd ==
    /\ nk.pc = "walk" /\ nk.i > MaxNames
    /\ nk' = [nk EXCEPT !.pc = "done", !.result = "ok"]
    /\ UNCHANGED <<fc, lk, wk, cs, rn, cc, md, sg, up, bk, ds, pl, xa, dr, op, eq, mx>>

ClobberNext ==
    \/ ClobberEntry
    \/ ClobberEnd

\* cp -R with -n, --update=none or -i over a directory of MaxNames files.
SpecClobber == ClobberInit /\ [][ClobberNext]_vars

\* The destination f is kept by the options: it existed, and no_clobber
\* or update = None is set or the interactive answer for it was negative.
Kept(s, f) ==
    /\ f \in s.cfg.existed
    /\ \/ s.cfg.guard \in {"no_clobber", "update_none"}
       \/ s.answer[f] = "no"

\* C39: in a recursive copy with no_clobber, with update = None, or
\* after a negative interactive answer, no destination file that existed
\* before the run is removed, replaced or re-linked, also when
\* preserve_links is set and the source file's inode is already in the
\* hard-link ledger.
C39_ExistingFilesKept ==
    \A f \in 1..MaxNames :
      Kept(nk, f) =>
        /\ nk.dst[f] = "old"
        /\ \A o \in nk.ops : o[2] # f

\* dir.rs lines 141-163 and 376-381: the descriptors one call of
\* copy_dir_recurse needs: src_fd, dst_fd and the stream's duplicate for
\* its own directory, and the pair of the subdirectory it descends into.
FrameFds == 5

\* dir.rs lines 278-285: below PARALLEL_THRESHOLD files the files of a
\* directory are copied one at a time, by the walker's thread.
FdWorkers == 1

\* The calls of copy_dir_recurse on the stack.
FdDepth(s) ==
    CASE s.pc \in {"idle", "start", "done"} -> 0
      [] s.cur = 0 -> 1
      [] OTHER -> 2

DirFds(s) == {fd \in s.open : fd[1] \in {"src", "dst", "dirp"}}

FileFds(s) == {fd \in s.open : fd[1] \in {"fsrc", "fdst"}}

\* C40: at every point of the fast-path walk the open descriptors number
\* at most FrameFds for each directory on the stack plus two for each
\* worker; the number does not grow with the number of subdirectories
\* of a directory.
C40_DescriptorsBoundedByDepth ==
    ds.pc \notin {"idle", "done"} =>
      /\ Cardinality(FileFds(ds)) <= 2 * FdWorkers
      /\ Cardinality(DirFds(ds)) <= FrameFds * FdDepth(ds)

====
